---- MODULE Spec2Model ----
(***************************************************************************)
(* Workflow orchestration engine of MACDS (macds/core/orchestrator.py).    *)
(*                                                                         *)
(* The model follows Orchestrator.run_workflow: one task per declared      *)
(* stage, a single pass over the workflow definition in declaration order, *)
(* the dependency gate, the worker dispatch inside try/except, failure     *)
(* routing (_handle_failure) and the WorkflowResult built at the end.      *)
(* What a worker computes is opaque to the orchestrator: a dispatch ends   *)
(* with the worker returning an output or raising.                         *)
(***************************************************************************)
EXTENDS Integers, Sequences, FiniteSets, TLC

VARIABLES
    pc,                 \* position of the run_workflow coroutine
    workflow_def,       \* the workflow definition of the run
    tasks,              \* tasks: dict[WorkflowStage, WorkflowTask]
    idx,                \* position of the stage loop in workflow_def
    completed_stages,   \* list of stages
    failed_stages,      \* list of stages
    outputs,            \* stages that have an entry in the outputs dict
    context,            \* the run context dict
    memory_entries,     \* contents stored in the memory store by the orchestrator
    result,             \* the WorkflowResult returned (NoResult before)
    events,             \* history: what happened at each visited entry
    escalated_before,   \* history: len(self._escalations) when the run started
    _scorecards,        \* EvaluationSystem._scorecards: dict[str, AgentScorecard]
    scorecards_file,    \* the "scorecards" object of scorecards.json
    eval_call,          \* history: the last call made on the evaluation system
    calls,              \* history: how many calls were made on the stores
    _entries,           \* MemoryStore._entries: dict[str, MemoryEntry]
    _current_task_id,   \* BaseAgent._current_task_id of the worker
    _task_start_time,   \* BaseAgent._task_start_time of the worker
    exec_pc,            \* position of each execute call of the worker
    exec_input,         \* the input envelope of each execute call
    exec_error,         \* what each execute call raised
    exec_trace,         \* history: the steps of the execute calls, in order
    _escalations,       \* Orchestrator._escalations: list[ConflictRecord]
    uuid_count,         \* how many uuid4() values were drawn
    conflict_call,      \* history: the last escalation or resolution call
    memories_file,      \* the "entries" list of memories.json
    clock,              \* datetime.now(), in hours
    mem_call,           \* history: the last call made on the memory store
    in_call,            \* position of each caller inside a call on a store
    serial,             \* history: the stores after the calls, one after another
    _artifacts,         \* ArtifactStore._artifacts: dict[str, Artifact]
    artifacts_dir,      \* the artifact files and metadata.json
    artifact_call       \* history: the last call made on the artifact store

\* the state of a workflow run
orchVars == <<pc, workflow_def, tasks, idx, completed_stages, failed_stages,
              outputs, context, memory_entries, result, events, escalated_before>>

\* the state of the evaluation system
evalVars == <<_scorecards, scorecards_file, eval_call, calls>>

\* the state of a worker wrapper and of the memory store it writes
execVars == <<_entries, _current_task_id, _task_start_time, exec_pc, exec_input,
              exec_error, exec_trace>>

\* the conflicts escalated to the orchestrator
conflictVars == <<_escalations, uuid_count, conflict_call>>

\* the file and the clock of the memory store
memVars == <<memories_file, clock, mem_call>>

\* the callers that share the memory store and the evaluation system
callerVars == <<in_call, serial>>

\* the state of the artifact store
artifactVars == <<_artifacts, artifacts_dir, artifact_call>>

vars == <<orchVars, evalVars, execVars, conflictVars, memVars, callerVars,
          artifactVars>>

\* what a step of a workflow run leaves alone
outsideOrch == <<evalVars, execVars, conflictVars, memVars, callerVars, artifactVars>>

\* what a call on the evaluation system leaves alone
outsideEval == <<orchVars, execVars, conflictVars, memVars, callerVars, artifactVars>>

\* what a call on the memory store leaves alone
outsideMemory == <<orchVars, conflictVars, _scorecards, scorecards_file, eval_call,
                   _current_task_id, _task_start_time, exec_pc, exec_input,
                   exec_error, exec_trace, callerVars, artifactVars>>

\* what an execute call of a worker leaves alone
outsideExec == <<orchVars, conflictVars, clock, mem_call, callerVars, artifactVars>>

\* what a step of a caller of the shared stores leaves alone
outsideCallers == <<orchVars, conflictVars, artifactVars, eval_call,
                    _current_task_id, _task_start_time, exec_pc, exec_input,
                    exec_error, exec_trace, clock, mem_call>>

\* what a call on the artifact store leaves alone
outsideArtifacts == <<orchVars, evalVars, execVars, conflictVars, memVars, callerVars>>

----------------------------------------------------------------------------
(* Bounds of the model *)

\* longest freely composed workflow definition
MaxLen == 3
\* largest number of calls made on the evaluation system
MaxCalls == 4
\* largest number of task results recorded in a row for one fresh scorecard
MaxResults == 6
\* largest number of execute calls made on one worker
MaxExecutes == 3
\* largest number of conflicts escalated
MaxConflicts == 2
\* largest number of resolve_conflict calls
MaxResolves == 3
\* largest number of times one routed stage is declared again in a workflow
MaxRepeats == 4
\* largest number of calls made on the memory store
MaxMemoryCalls == 4
\* largest number of hours that pass on the clock of the memory store
MaxHours == 3
\* largest number of entries stored one after the other at one instant
MaxStores == 2
\* largest number of calls the callers of the shared stores make
MaxCallerCalls == 3
\* largest number of calls made on the artifact store
MaxArtifactCalls == 3
\* longest freely composed workflow definition of the runs checked for
\* termination
MaxLiveLen == 2

----------------------------------------------------------------------------
(* Enumerations and tables of orchestrator.py *)

REQUIREMENTS == "requirements"
ARCHITECTURE == "architecture"
IMPLEMENTATION == "implementation"
REVIEW == "review"
BUILD_TEST == "build_test"
INTEGRATION == "integration"
FINAL_APPROVAL == "final_approval"

WorkflowStage ==
    {REQUIREMENTS, ARCHITECTURE, IMPLEMENTATION, REVIEW, BUILD_TEST,
     INTEGRATION, FINAL_APPROVAL}

PENDING == "pending"
RUNNING == "running"
COMPLETED == "completed"
FAILED == "failed"
BLOCKED == "blocked"
ESCALATED == "escalated"

TaskStatus == {PENDING, RUNNING, COMPLETED, FAILED, BLOCKED, ESCALATED}

\* WorkflowTask.max_retries default
max_retries == 3

\* the agent instances _init_agents registers, by name
RegisteredAgents ==
    {"ArchitectAgent", "ProductAgent", "ImplementationAgent", "ReviewerAgent",
     "BuildTestAgent", "IntegratorAgent", "InfraAgent"}

\* a name self._agents.get() does not know
UnknownAgent == "UnknownAgent"

\* one (stage, agent_name, deps) tuple of a workflow definition
StageDecl(stage, agent_name, deps) ==
    [stage |-> stage, agent_name |-> agent_name, deps |-> deps]

DEFAULT_WORKFLOW ==
    << StageDecl(REQUIREMENTS, "ProductAgent", {}),
       StageDecl(ARCHITECTURE, "ArchitectAgent", {REQUIREMENTS}),
       StageDecl(IMPLEMENTATION, "ImplementationAgent", {ARCHITECTURE}),
       StageDecl(REVIEW, "ReviewerAgent", {IMPLEMENTATION}),
       StageDecl(BUILD_TEST, "BuildTestAgent", {REVIEW}),
       StageDecl(INTEGRATION, "IntegratorAgent", {BUILD_TEST}),
       StageDecl(FINAL_APPROVAL, "ArchitectAgent", {INTEGRATION}) >>

NoTarget == "none"

\* FAILURE_ROUTING.get(stage)
FAILURE_ROUTING(stage) ==
    CASE stage = REVIEW -> IMPLEMENTATION
      [] stage = BUILD_TEST -> IMPLEMENTATION
      [] stage = INTEGRATION -> IMPLEMENTATION
      [] stage = FINAL_APPROVAL -> ARCHITECTURE
      [] OTHER -> NoTarget

----------------------------------------------------------------------------
(* Workflow definitions a caller passes to run_workflow *)

\* the sub-sequence of s whose elements satisfy keep, order preserved
RECURSIVE SelectDecls(_, _)
SelectDecls(s, keep) ==
    IF s = <<>> THEN <<>>
    ELSE IF Head(s).stage \in keep
         THEN <<Head(s)>> \o SelectDecls(Tail(s), keep)
         ELSE SelectDecls(Tail(s), keep)

\* main.py run(--quick): DEFAULT_WORKFLOW without review and build/test
quick_workflow ==
    SelectDecls(DEFAULT_WORKFLOW, WorkflowStage \ {REVIEW, BUILD_TEST})

\* every workflow obtained from DEFAULT_WORKFLOW by leaving stages out, the
\* way main.py builds quick_workflow (the empty list falls back to the default)
FilteredWorkflows ==
    {SelectDecls(DEFAULT_WORKFLOW, keep) : keep \in (SUBSET WorkflowStage) \ {{}}}

\* the declarations freely composed workflows are made of: every stage with
\* its default agent, with its default dependencies or with none, and two
\* declarations that name an agent the orchestrator does not hold
CustomDecls ==
    {DEFAULT_WORKFLOW[i] : i \in DOMAIN DEFAULT_WORKFLOW}
    \cup {StageDecl(DEFAULT_WORKFLOW[i].stage, DEFAULT_WORKFLOW[i].agent_name, {}) :
            i \in DOMAIN DEFAULT_WORKFLOW}
    \cup {StageDecl(REQUIREMENTS, UnknownAgent, {}),
          StageDecl(REVIEW, UnknownAgent, {})}

\* every list of 1..MaxLen declarations, in any order, repeats included
CustomWorkflows ==
    UNION {[1..n -> CustomDecls] : n \in 1..MaxLen}

\* implementation followed by a routed stage declared n times
RepeatWorkflows ==
    {<<StageDecl(IMPLEMENTATION, "ImplementationAgent", {})>>
        \o [i \in 1..n |-> StageDecl(REVIEW, "ReviewerAgent", {})]
     : n \in 1..MaxRepeats}

Workflows == FilteredWorkflows \cup CustomWorkflows \cup RepeatWorkflows

----------------------------------------------------------------------------
(* Tasks *)

workflow_id == "wf"

\* f"{workflow_id}-{stage.value}"
TaskId(stage) == <<workflow_id, stage>>

NoError == "None"

\* WorkflowTask(id=..., stage=..., agent_name=..., dependencies=[...])
WorkflowTask(stage, agent_name, deps) ==
    [id |-> TaskId(stage),
     stage |-> stage,
     agent_name |-> agent_name,
     status |-> PENDING,
     dependencies |-> {TaskId(d) : d \in deps},
     input_data |-> "None",
     output_data |-> "None",
     error |-> NoError,
     retry_count |-> 0,
     max_retries |-> max_retries]

DeclaredStages(wd) == {wd[i].stage : i \in DOMAIN wd}

\* the position of the last declaration of a stage
LastDecl(wd, stage) ==
    CHOOSE i \in DOMAIN wd :
        /\ wd[i].stage = stage
        /\ \A j \in DOMAIN wd : wd[j].stage = stage => j <= i

\* run_workflow, "Create tasks from workflow definition": tasks[stage] = task
\* for each tuple in turn, so a later declaration of a stage replaces the task
CreateTasks(wd) ==
    [s \in DeclaredStages(wd) |->
        WorkflowTask(s, wd[LastDecl(wd, s)].agent_name, wd[LastDecl(wd, s)].deps)]

----------------------------------------------------------------------------
(* run_workflow: the pieces of one loop iteration *)

\* mutant of deps_met: a dependency holds a stage back only once it has failed
deps_met_unless_failed(task, wd, ts) ==
    \A i \in DOMAIN wd :
        TaskId(wd[i].stage) \in task.dependencies
            => ts[wd[i].stage].status # FAILED

\* "Check dependencies": all(tasks[s].status == COMPLETED for s, _, _ in
\* workflow_def if f"{workflow_id}-{s.value}" in task.dependencies)
deps_met(task, wd, ts) ==
    \A i \in DOMAIN wd :
        TaskId(wd[i].stage) \in task.dependencies
            => ts[wd[i].stage].status = COMPLETED

\* _prepare_input: the input contract built for a stage; the else branch
\* raises ValueError
_prepare_input(stage) ==
    CASE stage = REQUIREMENTS -> "RequirementsInput"
      [] stage = ARCHITECTURE -> "ArchitectureInput"
      [] stage = IMPLEMENTATION -> "ImplementationInput"
      [] stage = REVIEW -> "CodeReviewInput"
      [] stage = BUILD_TEST -> "BuildTestInput"
      [] stage = INTEGRATION -> "IntegrationInput"
      [] stage = FINAL_APPROVAL -> "ArchitectureInput"
      [] OTHER -> "ValueError"

NoFailureContext == [failed_stage |-> "None", error |-> NoError, retry_count |-> 0]

\* context = {"user_request": user_request}
InitialContext == [keys |-> {"user_request"}, failure_context |-> NoFailureContext]

\* _update_context: the keys a stage's output adds to the context
_update_context(stage, ctx) ==
    CASE stage = REQUIREMENTS ->
            [ctx EXCEPT !.keys = @ \cup {"requirements", "constraints"}]
      [] stage = ARCHITECTURE ->
            [ctx EXCEPT !.keys = @ \cup {"architecture", "invariants"}]
      [] OTHER -> ctx

\* what a dispatch can raise: ContractViolationError from the worker wrapper,
\* any other exception of the worker, ValueError for an unknown agent name
ContractViolationError == "ContractViolationError"
WorkerError == "WorkerError"
ValueError == "ValueError"
ExceptionTypes == {ContractViolationError, WorkerError, ValueError}

\* mutant of CaughtByExcept: "except ContractViolationError as e"
CaughtOnlyContractViolation(exc) == exc = ContractViolationError

\* "except Exception as e": every one of them is caught
CaughtByExcept(exc) == exc \in ExceptionTypes

\* _handle_failure: its return value with the tasks and context it leaves
_handle_failure(stage, task, ts, ctx) ==
    IF task.retry_count >= task.max_retries
    THEN [handled |-> FALSE, tasks |-> ts, context |-> ctx]
    ELSE LET target_stage == FAILURE_ROUTING(stage) IN
         IF target_stage = NoTarget
         THEN [handled |-> FALSE, tasks |-> ts, context |-> ctx]
         ELSE IF target_stage \in DOMAIN ts
              THEN [handled |-> TRUE,
                    tasks |-> [ts EXCEPT ![target_stage].status = PENDING,
                                         ![target_stage].retry_count = @ + 1],
                    context |->
                        [keys |-> ctx.keys \cup {"failure_context"},
                         failure_context |->
                            [failed_stage |-> stage,
                             error |-> task.error,
                             retry_count |-> ts[target_stage].retry_count + 1]]]
              ELSE [handled |-> FALSE, tasks |-> ts, context |-> ctx]

\* mutant of BreaksLoop: the break is missing
BreaksLoopNever(handled) == FALSE

\* "if not await self._handle_failure(...): failed_stages.append(stage); break"
BreaksLoop(handled) == ~handled

\* mutant of WorkflowSuccess: the comparison is inverted
WorkflowSuccessInverted(failed) == Len(failed) # 0

\* success=len(failed_stages) == 0
WorkflowSuccess(failed) == Len(failed) = 0

NoResult == [returned |-> FALSE]

\* WorkflowResult(...) at the end of run_workflow
WorkflowResult(completed, failed, outs, escalations) ==
    [returned |-> TRUE,
     workflow_id |-> workflow_id,
     success |-> WorkflowSuccess(failed),
     stages_completed |-> completed,
     stages_failed |-> failed,
     outputs |-> outs,
     escalations |-> escalations]

\* the content of the memory entry stored before returning
WorkflowMemory(completed, failed) ==
    [workflow_id |-> workflow_id,
     success |-> Len(failed) = 0,
     completed |-> completed,
     failed |-> failed,
     scope |-> "project",
     source |-> "Orchestrator"]

Event(i, stage, kind, exc, handled) ==
    [idx |-> i, stage |-> stage, kind |-> kind, exc |-> exc, handled |-> handled]

----------------------------------------------------------------------------
(* Evaluation system (macds/core/evaluation.py) *)

\* Scores are whole numbers 0..100.  autonomy_level is kept in tenths (10 is
\* 1.0, 2 is 0.2).  Averages, the overall score and the success rate are exact
\* fractions [num, den]; a threshold test compares by cross-multiplication.

CORRECTNESS == "correctness"
EFFICIENCY == "efficiency"
COMPLIANCE == "compliance"
COST == "cost"
STABILITY == "stability"

ScoreCategory == {CORRECTNESS, EFFICIENCY, COMPLIANCE, COST, STABILITY}

Ratio(num, den) == [num |-> num, den |-> den]

\* r >= a/b and r < a/b
RatioGE(r, a, b) == r.num * b >= a * r.den
RatioLT(r, a, b) == r.num * b < a * r.den

\* an empty dict
EmptyDict == [k \in {} |-> <<>>]

\* ScoreEntry(category, score, task_id): timestamp is now, so the entry is
\* inside the 30-day window of get_average ("recent") until the clock moves on
ScoreEntry(category, score, task_id) ==
    [category |-> category, score |-> score, task_id |-> task_id, recent |-> TRUE]

\* AgentScorecard(agent_name=...), every other field at its default
AgentScorecard(agent_name) ==
    [agent_name |-> agent_name,
     scores |-> EmptyDict,
     total_tasks |-> 0,
     successful_tasks |-> 0,
     failed_tasks |-> 0,
     escalations |-> 0,
     autonomy_level |-> 10]

\* AgentScorecard.add_score
add_score(card, category, score, task_id) ==
    LET entry == ScoreEntry(category, score, task_id) IN
    [card EXCEPT !.scores =
        IF category \in DOMAIN card.scores
        THEN [card.scores EXCEPT ![category] = Append(@, entry)]
        ELSE (category :> <<entry>>) @@ card.scores]

RECURSIVE SumScores(_)
SumScores(entries) ==
    IF entries = <<>> THEN 0
    ELSE Head(entries).score + SumScores(Tail(entries))

\* AgentScorecard.get_average(category): the mean of the entries inside the
\* window, 50.0 when there is none
get_average(card, category) ==
    IF category \notin DOMAIN card.scores
    THEN Ratio(50, 1)
    ELSE LET recent == SelectSeq(card.scores[category], LAMBDA e : e.recent) IN
         IF recent = <<>>
         THEN Ratio(50, 1)
         ELSE Ratio(SumScores(recent), Len(recent))

\* the weights of get_overall_score, in hundredths
weights(category) ==
    CASE category = CORRECTNESS -> 35
      [] category = EFFICIENCY -> 15
      [] category = COMPLIANCE -> 25
      [] category = COST -> 10
      [] category = STABILITY -> 15

\* AgentScorecard.get_overall_score: total / total_weight, where total is the
\* sum of avg * weight over the five categories
get_overall_score(card) ==
    LET avg(c) == get_average(card, c)
        common == avg(CORRECTNESS).den * avg(EFFICIENCY).den * avg(COMPLIANCE).den
                    * avg(COST).den * avg(STABILITY).den
        term(c) == weights(c) * avg(c).num * (common \div avg(c).den)
        total_weight == weights(CORRECTNESS) + weights(EFFICIENCY) + weights(COMPLIANCE)
                          + weights(COST) + weights(STABILITY)
    IN Ratio(term(CORRECTNESS) + term(EFFICIENCY) + term(COMPLIANCE)
                + term(COST) + term(STABILITY),
             total_weight * common)

\* mutant of get_success_rate: the failed tasks are counted in place of the
\* successful ones
get_failure_rate(card) ==
    IF card.total_tasks = 0
    THEN Ratio(1, 1)
    ELSE Ratio(card.failed_tasks, card.total_tasks)

\* AgentScorecard.get_success_rate
get_success_rate(card) ==
    IF card.total_tasks = 0
    THEN Ratio(1, 1)
    ELSE Ratio(card.successful_tasks, card.total_tasks)

\* AgentScorecard.record_success
record_success(card) ==
    [card EXCEPT !.total_tasks = @ + 1, !.successful_tasks = @ + 1]

\* mutant of record_failure: the failed task is not counted in total_tasks
record_failure_uncounted(card) ==
    [card EXCEPT !.failed_tasks = @ + 1]

\* AgentScorecard.record_failure
record_failure(card) ==
    [card EXCEPT !.total_tasks = @ + 1, !.failed_tasks = @ + 1]

\* mutant of record_escalation: an escalation also costs autonomy
record_escalation_penalised(card) ==
    [card EXCEPT !.escalations = @ + 1,
                 !.autonomy_level = IF @ - 1 > 2 THEN @ - 1 ELSE 2]

\* AgentScorecard.record_escalation
record_escalation(card) ==
    [card EXCEPT !.escalations = @ + 1]

Min(a, b) == IF a <= b THEN a ELSE b
Max(a, b) == IF a >= b THEN a ELSE b

\* mutant of adjust_autonomy: the floor of the decrease is missing
adjust_autonomy_no_floor(card) ==
    LET overall == get_overall_score(card)
        success_rate == get_success_rate(card)
    IN IF RatioGE(overall, 80, 1) /\ RatioGE(success_rate, 9, 10)
       THEN [card EXCEPT !.autonomy_level = Min(10, @ + 1)]
       ELSE IF RatioLT(overall, 50, 1) \/ RatioLT(success_rate, 7, 10)
            THEN [card EXCEPT !.autonomy_level = @ - 2]
            ELSE card

\* mutant of adjust_autonomy: a smoothed variant, the decrease is one step of
\* 0.1 and anything below the increase thresholds counts as poor
adjust_autonomy_smoothed(card) ==
    LET overall == get_overall_score(card)
        success_rate == get_success_rate(card)
    IN IF RatioGE(overall, 80, 1) /\ RatioGE(success_rate, 9, 10)
       THEN [card EXCEPT !.autonomy_level = Min(10, @ + 1)]
       ELSE [card EXCEPT !.autonomy_level = Max(2, @ - 1)]

\* mutant of adjust_autonomy: lenient thresholds, an overall score of 50 and a
\* success rate of one half are enough for the increase
adjust_autonomy_lenient(card) ==
    LET overall == get_overall_score(card)
        success_rate == get_success_rate(card)
    IN IF RatioGE(overall, 50, 1) /\ RatioGE(success_rate, 5, 10)
       THEN [card EXCEPT !.autonomy_level = Min(10, @ + 1)]
       ELSE IF RatioLT(overall, 50, 1) \/ RatioLT(success_rate, 7, 10)
            THEN [card EXCEPT !.autonomy_level = Max(2, @ - 2)]
            ELSE card

\* AgentScorecard.adjust_autonomy
adjust_autonomy(card) ==
    LET overall == get_overall_score(card)
        success_rate == get_success_rate(card)
    IN IF RatioGE(overall, 80, 1) /\ RatioGE(success_rate, 9, 10)
       THEN [card EXCEPT !.autonomy_level = Min(10, @ + 1)]
       ELSE IF RatioLT(overall, 50, 1) \/ RatioLT(success_rate, 7, 10)
            THEN [card EXCEPT !.autonomy_level = Max(2, @ - 2)]
            ELSE card

\* AgentScorecard.to_dict: what scorecards.json holds for one scorecard
to_dict(card) ==
    [agent_name |-> card.agent_name,
     overall_score |-> get_overall_score(card),
     success_rate |-> get_success_rate(card),
     total_tasks |-> card.total_tasks,
     successful_tasks |-> card.successful_tasks,
     failed_tasks |-> card.failed_tasks,
     escalations |-> card.escalations,
     autonomy_level |-> card.autonomy_level,
     category_scores |-> [c \in ScoreCategory |-> get_average(card, c)]]

\* EvaluationSystem.get_scorecard: the scorecards after "get or create"
get_scorecard(cards, agent_name) ==
    IF agent_name \in DOMAIN cards
    THEN cards
    ELSE (agent_name :> AgentScorecard(agent_name)) @@ cards

\* "for category, score in scores.items(): scorecard.add_score(...)"
RECURSIVE add_scores(_, _, _)
add_scores(card, scores, task_id) ==
    IF DOMAIN scores = {}
    THEN card
    ELSE LET c == CHOOSE k \in DOMAIN scores : TRUE IN
         add_scores(add_score(card, c, scores[c], task_id),
                    [k \in DOMAIN scores \ {c} |-> scores[k]], task_id)

\* EvaluationSystem.record_task_result, up to the save: the scorecards it leaves
record_task_result(cards, agent_name, success, scores, task_id) ==
    LET got == get_scorecard(cards, agent_name)
        counted == IF success THEN record_success(got[agent_name])
                   ELSE record_failure(got[agent_name])
        scored == add_scores(counted, scores, task_id)
    IN [got EXCEPT ![agent_name] = adjust_autonomy(scored)]

\* EvaluationSystem.record_build_result, up to the save
record_build_result(cards, agent_name, build_success, test_coverage, test_passed, test_failed) ==
    LET got == get_scorecard(cards, agent_name)
        built == IF build_success THEN 100 ELSE 0
        correctness ==
            IF test_passed + test_failed > 0
            THEN (built + (test_passed * 100) \div (test_passed + test_failed)) \div 2
            ELSE built
        c1 == add_score(got[agent_name], CORRECTNESS, correctness, "None")
        c2 == IF test_coverage >= 0
              THEN add_score(c1, COMPLIANCE, Min(100, test_coverage), "None")
              ELSE c1
        c3 == IF build_success /\ test_failed = 0
              THEN record_success(c2)
              ELSE record_failure(c2)
    IN [got EXCEPT ![agent_name] = adjust_autonomy(c3)]

\* EvaluationSystem.record_review_result, up to the save
record_review_result(cards, reviewer_name, reviewed_agent, violations, severity_score) ==
    LET got1 == get_scorecard(cards, reviewed_agent)
        compliance_score == Max(0, 100 - (violations * 10) - severity_score)
        scored1 == [got1 EXCEPT ![reviewed_agent] =
                        add_score(@, COMPLIANCE, compliance_score, "None")]
        got2 == get_scorecard(scored1, reviewer_name)
    IN [got2 EXCEPT ![reviewer_name] = add_score(@, CORRECTNESS, 100, "None")]

\* EvaluationSystem._save: the "scorecards" object of scorecards.json
SavedScorecards(cards) == [name \in DOMAIN cards |-> to_dict(cards[name])]

\* EvaluationSystem._load: the scorecards built from scorecards.json; the
\* score entries are not part of the file
LoadedScorecards(file) ==
    [name \in DOMAIN file |->
        [AgentScorecard(name) EXCEPT
            !.total_tasks = file[name].total_tasks,
            !.successful_tasks = file[name].successful_tasks,
            !.failed_tasks = file[name].failed_tasks,
            !.escalations = file[name].escalations,
            !.autonomy_level = file[name].autonomy_level]]

\* every score entry has left the 30-day window
RECURSIVE AgedEntries(_)
AgedEntries(entries) ==
    IF entries = <<>> THEN <<>>
    ELSE <<[Head(entries) EXCEPT !.recent = FALSE]>> \o AgedEntries(Tail(entries))

AgedScorecards(cards) ==
    [name \in DOMAIN cards |->
        [cards[name] EXCEPT !.scores =
            [c \in DOMAIN cards[name].scores |-> AgedEntries(cards[name].scores[c])]]]

\* no call was made yet
NoCall == [op |-> "None", agent_name |-> "None", success |-> FALSE, scores |-> EmptyDict]

EvalCall(op, agent_name, success, scores) ==
    [op |-> op, agent_name |-> agent_name, success |-> success, scores |-> scores]

----------------------------------------------------------------------------
(* Memory store (macds/core/memory.py) *)

\* Time is counted in hours (a half-life of 3600 seconds is 1).  confidence,
\* thresholds and the access boost are kept in tenths (10 is 1.0); a strength
\* is an exact fraction [num, den].

WORKING == "working"
PROJECT == "project"
SKILL == "skill"
FAILURE == "failure"

MemoryScope == {WORKING, PROJECT, SKILL, FAILURE}

FAST == "fast"
MEDIUM == "medium"
SLOW == "slow"
VERY_SLOW == "very_slow"
PERMANENT == "permanent"

DecayPolicy == {FAST, MEDIUM, SLOW, VERY_SLOW, PERMANENT}

\* DECAY_RATES: the half-life of a decaying policy, in hours
DECAY_RATES(policy) ==
    CASE policy = FAST -> 1
      [] policy = MEDIUM -> 24
      [] policy = SLOW -> 168
      [] policy = VERY_SLOW -> 720

\* SCOPE_DECAY_DEFAULTS
SCOPE_DECAY_DEFAULTS(scope) ==
    CASE scope = WORKING -> FAST
      [] scope = PROJECT -> SLOW
      [] scope = SKILL -> VERY_SLOW
      [] scope = FAILURE -> MEDIUM

\* a content dict: what it is about (kind), the task it names, its detail (the
\* input type, the failure reason, the note) and the timestamp written in it
Content(kind, task_id, detail, timestamp) ==
    [kind |-> kind, task_id |-> task_id, detail |-> detail, timestamp |-> timestamp]

\* MemoryStore._generate_id: a digest of the content, equal for equal contents
_generate_id(content) == <<"sha256", content>>

\* datetime.isoformat and datetime.fromisoformat
isoformat(t) == <<"iso", t>>
fromisoformat(text) == text[2]

\* MemoryEntry(id=..., content=..., scope=..., source=..., confidence=...,
\* decay_policy=..., tags=...) built at time t: created_at and last_accessed
\* default to datetime.now()
MemoryEntry(id, content, scope, source, confidence, decay_policy, tags, t) ==
    [id |-> id,
     content |-> content,
     scope |-> scope,
     source |-> source,
     confidence |-> confidence,
     decay_policy |-> decay_policy,
     created_at |-> t,
     last_accessed |-> t,
     access_count |-> 0,
     tags |-> tags,
     related_entries |-> <<>>]

RECURSIVE Pow2(_)
Pow2(n) == IF n = 0 THEN 1 ELSE 2 * Pow2(n - 1)

\* r1 >= r2 for exact fractions
RatioGEQ(r1, r2) == r1.num * r2.den >= r2.num * r1.den

\* mutant of get_current_strength: a fresh entry is at full strength whatever
\* its confidence
get_current_strength_full_when_fresh(entry, t) ==
    IF entry.access_count = 0 /\ t = entry.last_accessed
    THEN Ratio(1, 1)
    ELSE IF entry.decay_policy = PERMANENT
    THEN Ratio(entry.confidence, 10)
    ELSE LET elapsed == t - entry.last_accessed
             half_life == DECAY_RATES(entry.decay_policy)
             access_boost == Min(20, 10 + entry.access_count)
             num == entry.confidence * access_boost
             den == 100 * Pow2(elapsed \div half_life)
         IN IF num >= den THEN Ratio(1, 1) ELSE Ratio(num, den)

\* MemoryEntry.get_current_strength at time t:
\* min(1.0, confidence * 0.5 ** (elapsed / half_life) * access_boost), exact
\* when elapsed is a whole number of half-lives
get_current_strength(entry, t) ==
    IF entry.decay_policy = PERMANENT
    THEN Ratio(entry.confidence, 10)
    ELSE LET elapsed == t - entry.last_accessed
             half_life == DECAY_RATES(entry.decay_policy)
             access_boost == Min(20, 10 + entry.access_count)
             num == entry.confidence * access_boost
             den == 100 * Pow2(elapsed \div half_life)
         IN IF num >= den THEN Ratio(1, 1) ELSE Ratio(num, den)

\* MemoryEntry.access
access(entry, t) ==
    [entry EXCEPT !.last_accessed = t, !.access_count = @ + 1]

\* the default of the threshold and min_strength parameters, 0.1
default_threshold == 1

\* MemoryEntry.is_expired(threshold)
is_expired(entry, threshold, t) ==
    RatioLT(get_current_strength(entry, t), threshold, 10)

\* MemoryEntry.to_dict at time t
MemoryEntry_to_dict(entry, t) ==
    [id |-> entry.id,
     content |-> entry.content,
     scope |-> entry.scope,
     source |-> entry.source,
     confidence |-> entry.confidence,
     decay_policy |-> entry.decay_policy,
     created_at |-> isoformat(entry.created_at),
     last_accessed |-> isoformat(entry.last_accessed),
     access_count |-> entry.access_count,
     tags |-> entry.tags,
     related_entries |-> entry.related_entries,
     current_strength |-> get_current_strength(entry, t)]

\* MemoryEntry.from_dict
MemoryEntry_from_dict(data) ==
    [id |-> data.id,
     content |-> data.content,
     scope |-> data.scope,
     source |-> data.source,
     confidence |-> data.confidence,
     decay_policy |-> data.decay_policy,
     created_at |-> fromisoformat(data.created_at),
     last_accessed |-> fromisoformat(data.last_accessed),
     access_count |-> data.access_count,
     tags |-> data.tags,
     related_entries |-> data.related_entries]

\* MemoryStore._save at time t: the "entries" of memories.json, by id
SavedEntries(entries, t) ==
    [k \in DOMAIN entries |-> MemoryEntry_to_dict(entries[k], t)]

\* mutant of LoadedEntries: the expired entries are loaded as well
LoadedEntriesUnfiltered(file, t) ==
    [k \in DOMAIN file |-> MemoryEntry_from_dict(file[k])]

\* MemoryStore._load at time t: the entries of memories.json that are not
\* expired
LoadedEntries(file, t) ==
    LET loaded == [k \in DOMAIN file |-> MemoryEntry_from_dict(file[k])]
        kept == {k \in DOMAIN file : ~is_expired(loaded[k], default_threshold, t)}
    IN [k \in kept |-> loaded[k]]

\* mutant of store: an entry already stored under the id is kept as it is
store_keeps_existing(entries, content, scope, source, confidence, decay_policy, tags, t) ==
    LET entry_id == _generate_id(content)
        policy == IF decay_policy = "None"
                  THEN SCOPE_DECAY_DEFAULTS(scope)
                  ELSE decay_policy
        entry == MemoryEntry(entry_id, content, scope, source, confidence,
                             policy, tags, t)
    IN [k \in DOMAIN entries \cup {entry_id} |->
            IF k \in DOMAIN entries THEN entries[k] ELSE entry]

\* MemoryStore.store at time t, up to the save: the entries it leaves.
\* decay_policy "None" selects the default policy of the scope
store(entries, content, scope, source, confidence, decay_policy, tags, t) ==
    LET entry_id == _generate_id(content)
        policy == IF decay_policy = "None"
                  THEN SCOPE_DECAY_DEFAULTS(scope)
                  ELSE decay_policy
        entry == MemoryEntry(entry_id, content, scope, source, confidence,
                             policy, tags, t)
    IN [k \in DOMAIN entries \cup {entry_id} |->
            IF k = entry_id THEN entry ELSE entries[k]]

\* the strings of json.dumps(content): the keys and the values of the dict
content_str(content) ==
    {"kind", "task_id", "detail", "timestamp",
     content.kind, content.task_id, content.detail}

\* the filters of retrieve: entry_id is {id}, or {} for None; "None" and an
\* empty tag list are no filter
Filters(entry_id, scope, source, tags, min_strength) ==
    [entry_id |-> entry_id, scope |-> scope, source |-> source, tags |-> tags,
     min_strength |-> min_strength]

\* the loop of MemoryStore.retrieve: the ids of the entries that pass every
\* "continue"
RetrieveMatches(entries, f, t) ==
    {k \in DOMAIN entries :
        /\ f.entry_id = {} \/ entries[k].id \in f.entry_id
        /\ f.scope = "None" \/ entries[k].scope = f.scope
        /\ f.source = "None" \/ entries[k].source = f.source
        /\ f.tags = {} \/ f.tags \cap entries[k].tags # {}
        /\ ~RatioLT(get_current_strength(entries[k], t), f.min_strength, 10)}

\* the loop of MemoryStore.search: the ids of the entries of the scope that
\* are not expired and whose serialised content holds the query
SearchMatches(entries, query, scope, t) ==
    {k \in DOMAIN entries :
        /\ scope = "None" \/ entries[k].scope = scope
        /\ ~is_expired(entries[k], default_threshold, t)
        /\ query \in content_str(entries[k].content)}

\* mutant of Accessed: an access is counted and last_accessed is left alone
AccessedCountOnly(entries, matches, t) ==
    [k \in DOMAIN entries |->
        IF k \in matches
        THEN [entries[k] EXCEPT !.access_count = @ + 1]
        ELSE entries[k]]

\* "entry.access()" on every match
Accessed(entries, matches, t) ==
    [k \in DOMAIN entries |->
        IF k \in matches THEN access(entries[k], t) ELSE entries[k]]

\* mutant of Sorted: ascending strength
SortedAscending(entries, results, t) ==
    \A i, j \in DOMAIN results :
        i < j => RatioGEQ(get_current_strength(entries[results[j]], t),
                          get_current_strength(entries[results[i]], t))

\* "results.sort(key=lambda e: e.get_current_strength(), reverse=True)": the
\* list of ids results is in an order the sort can leave
Sorted(entries, results, t) ==
    \A i, j \in DOMAIN results :
        i < j => RatioGEQ(get_current_strength(entries[results[i]], t),
                          get_current_strength(entries[results[j]], t))

\* the lists the sort can leave for a set of matches; entries of equal
\* strength keep the order of the dict, which is not modelled: any order
SortedResults(entries, matches, t) ==
    {results \in [1..Cardinality(matches) -> matches] :
        /\ \A i, j \in DOMAIN results : results[i] = results[j] => i = j
        /\ Sorted(entries, results, t)}

\* "results[:limit]"
Limited(results, limit) ==
    IF Len(results) <= limit THEN results ELSE SubSeq(results, 1, limit)

\* mutant of forget: the entry is kept
forget_nothing(entries, entry_id) ==
    [returned |-> entry_id \in DOMAIN entries, entries |-> entries]

\* MemoryStore.forget: its return value and the entries it leaves
forget(entries, entry_id) ==
    IF entry_id \in DOMAIN entries
    THEN [returned |-> TRUE,
          entries |-> [k \in DOMAIN entries \ {entry_id} |-> entries[k]]]
    ELSE [returned |-> FALSE, entries |-> entries]

\* mutant of cleanup: the default threshold is used whatever the argument
cleanup_default_threshold(entries, threshold, t) ==
    LET expired == {k \in DOMAIN entries :
                        is_expired(entries[k], default_threshold, t)}
    IN [returned |-> Cardinality(expired),
        entries |-> [k \in DOMAIN entries \ expired |-> entries[k]]]

\* MemoryStore.cleanup at time t: its return value and the entries it leaves
cleanup(entries, threshold, t) ==
    LET expired == {k \in DOMAIN entries : is_expired(entries[k], threshold, t)}
    IN [returned |-> Cardinality(expired),
        entries |-> [k \in DOMAIN entries \ expired |-> entries[k]]]

\* AgentMemory.remember
remember(entries, agent_name, content, scope, confidence, tags, t) ==
    store(entries, content, scope, agent_name, confidence, "None", tags, t)

\* AgentMemory.learn_from_failure
learn_from_failure(entries, agent_name, failure_info, t) ==
    remember(entries, agent_name, failure_info, FAILURE, 10, {"failure", "learning"}, t)

\* no call was made on the memory store yet
NoMemoryCall ==
    [op |-> "None", args |-> <<>>, matched |-> {}, returned |-> <<>>]

\* a call on the memory store: its arguments, the ids its loop matched (for a
\* store, the entry it replaced) and what it returned (a list of entries is a
\* list of ids)
MemoryCall(op, args, matched, returned) ==
    [op |-> op, args |-> args, matched |-> matched, returned |-> returned]

----------------------------------------------------------------------------
(* Worker wrapper (macds/agents/base.py): BaseAgent.execute *)

\* the worker whose wrapper is executed, and the input type it declares
Worker == "ImplementationAgent"
WorkerInputType == "ImplementationInput"

\* the request ids of the input envelopes
RequestIds == {"req-1", "req-2"}

\* the severities of the violations a validate() call returns
Severities == {"error", "warning", "info"}
ViolationLists == {{}, {"warning"}, {"error"}, {"error", "warning"}}

\* a step of an execute call, for the history
ExecStep(request_id, step) == [request_id |-> request_id, step |-> step]

\* mutant of HasErrorSeverity: all() in place of any()
HasOnlyErrorSeverity(violations) ==
    violations # {} /\ \A v \in violations : v = "error"

\* any(v.severity == "error" for v in violations)
HasErrorSeverity(violations) == \E v \in violations : v = "error"

\* the stores a worker wrapper writes, with the clock that stamps its entries
Stores(cards, entries, now) == [cards |-> cards, entries |-> entries, now |-> now]

\* BaseAgent._record_success: correctness 100 and the efficiency score of a
\* prompt execution
_record_success(st, task_id, start_time) ==
    IF start_time = "None"
    THEN st
    ELSE [st EXCEPT
            !.cards = record_task_result(st.cards, Worker, TRUE,
                        (CORRECTNESS :> 100) @@ (EFFICIENCY :> 100), task_id),
            !.now = @ + 1]

\* mutant of _record_failure: the failure is stored in memory and not recorded
\* in the evaluation system
_record_failure_memory_only(st, task_id, reason) ==
    [st EXCEPT
        !.entries = learn_from_failure(st.entries, Worker,
                        Content("failure", task_id, reason, st.now), clock),
        !.now = @ + 1]

\* BaseAgent._record_failure
_record_failure(st, task_id, reason) ==
    [st EXCEPT
        !.cards = record_task_result(st.cards, Worker, FALSE,
                    (CORRECTNESS :> 0), task_id),
        !.entries = learn_from_failure(st.entries, Worker,
                        Content("failure", task_id, reason, st.now), clock),
        !.now = @ + 1]

----------------------------------------------------------------------------
(* Conflict escalation (orchestrator.py: escalate_conflict, resolve_conflict) *)

\* the class attribute authority_level of each agent class
authority_level(agent_name) ==
    CASE agent_name = "ArchitectAgent" -> 10
      [] agent_name = "ProductAgent" -> 9
      [] agent_name = "BuildTestAgent" -> 8
      [] agent_name = "IntegratorAgent" -> 8
      [] agent_name = "ReviewerAgent" -> 7
      [] agent_name = "InfraAgent" -> 6
      [] agent_name = "ImplementationAgent" -> 5

\* the loop of escalate_conflict over agents_involved: the largest authority
\* of a participant the orchestrator holds, 0 when there is none
RECURSIVE max_authority(_)
max_authority(agents_involved) ==
    IF agents_involved = <<>> THEN 0
    ELSE LET rest == max_authority(Tail(agents_involved))
             agent_name == Head(agents_involved)
         IN IF agent_name \in RegisteredAgents /\ authority_level(agent_name) > rest
            THEN authority_level(agent_name)
            ELSE rest

\* mutant of decision_owner: the participant of highest authority decides
decision_owner_among_participants(agents_involved) ==
    IF max_authority(agents_involved) = 0
    THEN "ArchitectAgent"
    ELSE CHOOSE a \in {agents_involved[k] : k \in DOMAIN agents_involved} :
            /\ a \in RegisteredAgents
            /\ authority_level(a) = max_authority(agents_involved)

\* escalate_conflict: decision_owner = "ArchitectAgent", set again to
\* "ArchitectAgent" when max_authority < 10
decision_owner(agents_involved) ==
    IF max_authority(agents_involved) < 10
    THEN "ArchitectAgent"
    ELSE "ArchitectAgent"

\* resolved_at = None; the time of a resolution is a positive number
NotResolved == 0

\* ConflictRecord(conflict_id=..., topic=..., agents_involved=...,
\* evidence=..., decision_owner=...)
ConflictRecord(conflict_id, topic, agents_involved, evidence, owner) ==
    [conflict_id |-> conflict_id,
     topic |-> topic,
     agents_involved |-> agents_involved,
     evidence |-> evidence,
     decision_owner |-> owner,
     resolution |-> "None",
     resolved_at |-> NotResolved]

\* ConflictRecord.to_dict
ConflictRecord_to_dict(conflict) ==
    [conflict_id |-> conflict.conflict_id,
     topic |-> conflict.topic,
     agents_involved |-> conflict.agents_involved,
     evidence |-> conflict.evidence,
     decision_owner |-> conflict.decision_owner,
     resolution |-> conflict.resolution,
     resolved_at |-> conflict.resolved_at]

\* "[e.to_dict() for e in self._escalations]"
EscalationDicts(escalations) ==
    [k \in DOMAIN escalations |-> ConflictRecord_to_dict(escalations[k])]

\* str(uuid.uuid4())[:8]: the n-th value drawn
uuid4(n) == <<"uuid", n>>

\* the position of the first conflict with this id, 0 when there is none
FirstMatch(escalations, conflict_id) ==
    IF \E k \in DOMAIN escalations : escalations[k].conflict_id = conflict_id
    THEN CHOOSE k \in DOMAIN escalations :
            /\ escalations[k].conflict_id = conflict_id
            /\ \A j \in 1..(k - 1) : escalations[j].conflict_id # conflict_id
    ELSE 0

\* resolve_conflict: its return value and the list it leaves
resolve_conflict(escalations, conflict_id, resolution, now) ==
    LET k == FirstMatch(escalations, conflict_id) IN
    IF k # 0
    THEN [returned |-> TRUE,
          escalations |-> [escalations EXCEPT ![k].resolution = resolution,
                                              ![k].resolved_at = now]]
    ELSE [returned |-> FALSE, escalations |-> escalations]

\* no escalation or resolution call was made yet
NoConflictCall ==
    [op |-> "None", conflict_id |-> uuid4(0), resolution |-> "None",
     returned |-> FALSE, n |-> 0]

ConflictCall(op, conflict_id, resolution, returned, n) ==
    [op |-> op, conflict_id |-> conflict_id, resolution |-> resolution,
     returned |-> returned, n |-> n]

----------------------------------------------------------------------------
(* Callers of the shared stores (coroutines of one event loop) *)

\* the coroutines that call the one MemoryStore and the one EvaluationSystem
Callers == {"run-1", "run-2"}

\* a call on a shared store
StoreCall(op, input) == [op |-> op, input |-> input]

\* the arguments of a record_task_result call
TaskResult(agent_name, success, scores) ==
    [agent_name |-> agent_name, success |-> success, scores |-> scores]

\* a caller outside every call on a store
Idle == [call |-> 0, pc |-> "idle", todo |-> {}, at |-> {}]

\* a caller inside call number call of CallerCalls, at statement pc; todo and
\* at are the locals of its loop: the ids still to visit, and the id being
\* accessed or the list of expired ids
InCall(call, statement, todo, at) ==
    [call |-> call, pc |-> statement, todo |-> todo, at |-> at]

\* the first statement of each method
FirstStatement(op) ==
    CASE op = "store" -> "insert"
      [] op = "retrieve" -> "loop"
      [] op = "forget" -> "delete"
      [] op = "cleanup" -> "scan"
      [] op = "record_task_result" -> "get_scorecard"

\* mutant of SuspensionPoints: the file write of _save is awaited
SuspensionPointsWithIO == {"idle", "save"}

\* the statements at which a caller can be suspended while another caller
\* runs: the store methods are plain "def" with no await inside, the file is
\* written with open() and json.dump(), so a caller is suspended between
\* calls only
SuspensionPoints == {"idle"}

\* the event loop can run caller c: every other caller is suspended
CanRun(c) == \A d \in Callers \ {c} : in_call[d].pc \in SuspensionPoints

\* the stores after a series of calls made one after another, and the callers
\* that made them, in order
Serial(entries, cards, order) == [entries |-> entries, cards |-> cards, order |-> order]

\* the stores s after one more call made by caller c at time t, run from its
\* first statement to its last with nothing in between
Applied(s, c, call, t) ==
    LET i == call.input
        after ==
            CASE call.op = "store" ->
                    [s EXCEPT !.entries = store(s.entries, i.content, i.scope,
                                                i.source, i.confidence,
                                                i.decay_policy, i.tags, t)]
              [] call.op = "retrieve" ->
                    [s EXCEPT !.entries =
                        Accessed(s.entries, RetrieveMatches(s.entries, i, t), t)]
              [] call.op = "forget" ->
                    [s EXCEPT !.entries = forget(s.entries, i).entries]
              [] call.op = "cleanup" ->
                    [s EXCEPT !.entries = cleanup(s.entries, i, t).entries]
              [] call.op = "record_task_result" ->
                    [s EXCEPT !.cards = record_task_result(s.cards, i.agent_name,
                                            i.success, i.scores, "task")]
    IN [after EXCEPT !.order = Append(@, c)]

----------------------------------------------------------------------------
(* Artifact store (macds/core/artifacts.py) *)

\* ArtifactType: the members the calls of the model use
ArtifactType_ARCHITECTURE == "ArtifactType.ARCHITECTURE"
ArtifactType_SOURCE_CODE == "ArtifactType.SOURCE_CODE"
ArtifactType_DOCUMENTATION == "ArtifactType.DOCUMENTATION"

\* ARTIFACT_OWNERS, for the types that have an entry
ARTIFACT_OWNERS(artifact_type) ==
    CASE artifact_type = ArtifactType_ARCHITECTURE -> "ArchitectAgent"
      [] artifact_type = ArtifactType_SOURCE_CODE -> "ImplementationAgent"

\* ArtifactStore.get_owner: ARTIFACT_OWNERS.get(artifact_type, "ArchitectAgent")
get_owner(artifact_type) ==
    IF artifact_type \in {ArtifactType_ARCHITECTURE, ArtifactType_SOURCE_CODE}
    THEN ARTIFACT_OWNERS(artifact_type)
    ELSE "ArchitectAgent"

\* f"v{n}", and the version_id "current" of a loaded artifact
version_id(n) == <<"v", n>>
current_id == <<"current", 0>>

\* ArtifactVersion(version_id=..., content=..., created_at=..., created_by=...,
\* message=...) with the commit_sha set afterwards ("None" when the commit
\* gave none)
ArtifactVersion(id, content, created_at, created_by, commit_sha, message) ==
    [version_id |-> id,
     content |-> content,
     created_at |-> created_at,
     created_by |-> created_by,
     commit_sha |-> commit_sha,
     message |-> message]

\* Artifact(name=..., artifact_type=..., owner=...): current_version is <<>>
\* for None and <<version>> otherwise
Artifact(name, artifact_type, owner, created_at) ==
    [name |-> name,
     artifact_type |-> artifact_type,
     owner |-> owner,
     current_version |-> <<>>,
     versions |-> <<>>,
     created_at |-> created_at]

\* Artifact.content
content_of(artifact) ==
    IF artifact.current_version # <<>>
    THEN artifact.current_version[1].content
    ELSE ""

\* ArtifactVersion.to_dict (content_length is left out: the length of a
\* content is not modelled)
ArtifactVersion_to_dict(version) ==
    [version_id |-> version.version_id,
     created_at |-> isoformat(version.created_at),
     created_by |-> version.created_by,
     commit_sha |-> version.commit_sha,
     message |-> version.message]

\* Artifact.to_dict
Artifact_to_dict(artifact) ==
    [name |-> artifact.name,
     type |-> artifact.artifact_type,
     owner |-> artifact.owner,
     version_count |-> Len(artifact.versions),
     current_version |-> [k \in DOMAIN artifact.current_version |->
                            ArtifactVersion_to_dict(artifact.current_version[k])],
     created_at |-> isoformat(artifact.created_at)]

\* the artifacts directory: the artifact files by name, and the "artifacts"
\* object of metadata.json
Dir(files, metadata) == [files |-> files, metadata |-> metadata]
EmptyDir == Dir(EmptyDict, EmptyDict)

\* "with open(artifact_file, 'w') as f: f.write(content)"
Written(files, name, content) ==
    [k \in DOMAIN files \cup {name} |-> IF k = name THEN content ELSE files[k]]

\* ArtifactStore._save_metadata
SavedMetadata(artifacts) ==
    [name \in DOMAIN artifacts |-> Artifact_to_dict(artifacts[name])]

\* ArtifactStore._load_metadata at time t: the artifacts of metadata.json,
\* each with the content of its file as the version "current"
LoadedArtifacts(dir, t) ==
    [name \in DOMAIN dir.metadata |->
        LET data == dir.metadata[name]
            artifact == Artifact(name, data.type, data.owner,
                                 fromisoformat(data.created_at))
        IN IF name \in DOMAIN dir.files
           THEN [artifact EXCEPT !.current_version =
                    <<ArtifactVersion(current_id, dir.files[name], t, data.owner,
                                      "None", "")>>]
           ELSE artifact]

\* mutant of can_modify: every agent may modify every artifact
can_modify_anyone(artifacts, artifact_name, agent_name) == TRUE

\* ArtifactStore.can_modify
can_modify(artifacts, artifact_name, agent_name) ==
    IF artifact_name \notin DOMAIN artifacts
    THEN TRUE
    ELSE artifacts[artifact_name].owner = agent_name

\* an artifact with one more version, made current
WithVersion(artifact, version) ==
    [artifact EXCEPT !.current_version = <<version>>,
                     !.versions = Append(@, version)]

\* ArtifactStore.create at time t, the commit giving commit_sha: the
\* artifacts it leaves
create(artifacts, name, content, artifact_type, created_by, commit_sha, t) ==
    LET artifact == Artifact(name, artifact_type, get_owner(artifact_type), t)
        version == ArtifactVersion(version_id(1), content, t, created_by,
                                   commit_sha, <<"Created", name>>)
    IN [k \in DOMAIN artifacts \cup {name} |->
            IF k = name THEN WithVersion(artifact, version) ELSE artifacts[k]]

\* ArtifactStore.update at time t, the commit giving commit_sha: what it
\* raised, whether it returned an artifact, and the artifacts it leaves
update(artifacts, name, content, updated_by, force, commit_sha, t) ==
    IF name \notin DOMAIN artifacts
    THEN [raised |-> "None", returned |-> FALSE, artifacts |-> artifacts]
    ELSE IF ~force /\ ~can_modify(artifacts, name, updated_by)
    THEN [raised |-> "PermissionError", returned |-> FALSE, artifacts |-> artifacts]
    ELSE LET artifact == artifacts[name]
             version_num == Len(artifact.versions) + 1
             version == ArtifactVersion(version_id(version_num), content, t,
                                        updated_by, commit_sha, <<"Updated", name>>)
         IN [raised |-> "None",
             returned |-> TRUE,
             artifacts |-> [artifacts EXCEPT ![name] = WithVersion(@, version)]]

\* no call was made on the artifact store yet
NoArtifactCall ==
    [op |-> "None", name |-> "None", agent |-> "None", content |-> "",
     force |-> FALSE, raised |-> "None", n |-> 0]

\* a call on the artifact store: the artifact and the agent it names, the
\* content it passes, what it raised, and its number
ArtifactCall(op, name, agent, content, force, raised, n) ==
    [op |-> op, name |-> name, agent |-> agent, content |-> content,
     force |-> force, raised |-> raised, n |-> n]

----------------------------------------------------------------------------
(* The state machine *)

\* Orchestrator.__init__: no workflow is active
Init ==
    /\ pc = "idle"
    /\ workflow_def = <<>>
    /\ tasks = <<>>
    /\ idx = 0
    /\ completed_stages = <<>>
    /\ failed_stages = <<>>
    /\ outputs = {}
    /\ context = InitialContext
    /\ memory_entries = {}
    /\ result = NoResult
    /\ events = <<>>
    /\ escalated_before = 0
    /\ _scorecards = EmptyDict
    /\ scorecards_file = EmptyDict
    /\ eval_call = NoCall
    /\ calls = 0
    /\ _entries = EmptyDict
    /\ _current_task_id = "None"
    /\ _task_start_time = "None"
    /\ exec_pc = [r \in RequestIds |-> "idle"]
    /\ exec_input = [r \in RequestIds |-> {}]
    /\ exec_error = [r \in RequestIds |-> NoError]
    /\ exec_trace = <<>>
    /\ _escalations = <<>>
    /\ uuid_count = 0
    /\ conflict_call = NoConflictCall
    /\ memories_file = EmptyDict
    /\ clock = 0
    /\ mem_call = NoMemoryCall
    /\ in_call = [c \in Callers |-> Idle]
    /\ serial = Serial(EmptyDict, EmptyDict, <<>>)
    /\ _artifacts = EmptyDict
    /\ artifacts_dir = EmptyDir
    /\ artifact_call = NoArtifactCall

\* run_workflow up to the stage loop, called with one of the given workflows
StartRun(given) ==
    /\ pc = "idle"
    /\ UNCHANGED outsideOrch
    /\ \E wd \in given :
          /\ workflow_def' = wd
          /\ tasks' = CreateTasks(wd)
    /\ idx' = 1
    /\ pc' = "loop"
    /\ escalated_before' = Len(_escalations)
    /\ UNCHANGED <<completed_stages, failed_stages, outputs, context,
                   memory_entries, result, events>>

\* mutant of NextEntry: the loop stays on the entry it has just run
SameEntry(i) == i

\* "for stage, agent_name, _ in workflow_def": the entry after entry i
NextEntry(i) == i + 1

\* mutant of BlockedBreaksLoop: "break" in place of "continue"
BlockedBreaksLoopTaken == TRUE

\* "continue" after a blocked stage: the loop is not left
BlockedBreaksLoop == FALSE

\* the end of a loop iteration: the next entry, or past the loop (break, or no
\* entry left) the memory store call and the return
EndIteration(break, completed, failed, outs) ==
    IF break \/ NextEntry(idx) > Len(workflow_def)
    THEN /\ pc' = "returned"
         /\ idx' = idx
         /\ memory_entries' = memory_entries \cup {WorkflowMemory(completed, failed)}
         /\ result' = WorkflowResult(completed, failed, outs,
                                     EscalationDicts(_escalations))
    ELSE /\ pc' = "loop"
         /\ idx' = NextEntry(idx)
         /\ UNCHANGED <<memory_entries, result>>

\* the except block of the loop body, for an exception raised in the try block
ExceptBlock(stage, exc, ts) ==
    IF ~CaughtByExcept(exc)
    THEN /\ pc' = "raised"
         /\ tasks' = ts
         /\ events' = Append(events, Event(idx, stage, "failed", exc, FALSE))
         /\ UNCHANGED <<idx, completed_stages, failed_stages, outputs, context,
                        memory_entries, result>>
    ELSE LET failed_ts == [ts EXCEPT ![stage].status = FAILED, ![stage].error = exc]
             r == _handle_failure(stage, failed_ts[stage], failed_ts, context)
             failed == IF r.handled THEN failed_stages ELSE Append(failed_stages, stage)
         IN /\ tasks' = r.tasks
            /\ context' = r.context
            /\ failed_stages' = failed
            /\ events' = Append(events, Event(idx, stage, "failed", exc, r.handled))
            /\ UNCHANGED <<completed_stages, outputs>>
            /\ EndIteration(BreaksLoop(r.handled), completed_stages, failed, outputs)

\* dependencies not met: the stage is blocked and the loop continues
BlockStage ==
    /\ pc = "loop"
    /\ UNCHANGED <<outsideOrch, escalated_before>>
    /\ LET stage == workflow_def[idx].stage IN
       /\ ~deps_met(tasks[stage], workflow_def, tasks)
       /\ tasks' = [tasks EXCEPT ![stage].status = BLOCKED]
       /\ failed_stages' = Append(failed_stages, stage)
       /\ events' = Append(events, Event(idx, stage, "blocked", NoError, FALSE))
       /\ UNCHANGED <<workflow_def, completed_stages, outputs, context>>
       /\ EndIteration(BlockedBreaksLoop, completed_stages,
                       Append(failed_stages, stage), outputs)

\* mutant of Dispatch: the worker is started and not awaited, the loop goes on
\* to the next entry
DispatchWithoutAwait ==
    /\ pc = "loop"
    /\ UNCHANGED <<outsideOrch, escalated_before>>
    /\ LET stage == workflow_def[idx].stage IN
       /\ deps_met(tasks[stage], workflow_def, tasks)
       /\ workflow_def[idx].agent_name \in RegisteredAgents
       /\ tasks' = [tasks EXCEPT ![stage].status = RUNNING,
                                 ![stage].input_data = _prepare_input(stage)]
       /\ events' = Append(events, Event(idx, stage, "dispatched", NoError, FALSE))
       /\ UNCHANGED <<workflow_def, completed_stages, failed_stages, outputs, context>>
       /\ EndIteration(FALSE, completed_stages, failed_stages, outputs)

\* dependencies met, agent registered: the input is prepared, the task is
\* running and the coroutine awaits agent.execute
Dispatch ==
    /\ pc = "loop"
    /\ UNCHANGED <<outsideOrch, escalated_before>>
    /\ LET stage == workflow_def[idx].stage IN
       /\ deps_met(tasks[stage], workflow_def, tasks)
       /\ workflow_def[idx].agent_name \in RegisteredAgents
       /\ IF _prepare_input(stage) = "ValueError"
          THEN /\ pc' = "raised"
               /\ UNCHANGED <<tasks, events>>
          ELSE /\ pc' = "executing"
               /\ tasks' = [tasks EXCEPT ![stage].status = RUNNING,
                                         ![stage].input_data = _prepare_input(stage)]
               /\ events' = Append(events, Event(idx, stage, "dispatched", NoError, FALSE))
       /\ UNCHANGED <<workflow_def, idx, completed_stages, failed_stages, outputs,
                      context, memory_entries, result>>

\* dependencies met, self._agents.get(agent_name) is None: ValueError is raised
\* in the try block before any worker is called
AgentNotFound ==
    /\ pc = "loop"
    /\ UNCHANGED <<outsideOrch, escalated_before>>
    /\ LET stage == workflow_def[idx].stage IN
       /\ deps_met(tasks[stage], workflow_def, tasks)
       /\ workflow_def[idx].agent_name \notin RegisteredAgents
       /\ IF _prepare_input(stage) = "ValueError"
          THEN /\ pc' = "raised"
               /\ UNCHANGED <<tasks, idx, completed_stages, failed_stages, outputs,
                              context, memory_entries, result, events>>
          ELSE ExceptBlock(stage, ValueError,
                           [tasks EXCEPT ![stage].status = RUNNING,
                                         ![stage].input_data = _prepare_input(stage)])
       /\ UNCHANGED workflow_def

\* agent.execute returned an output
WorkerReturns ==
    /\ pc = "executing"
    /\ UNCHANGED <<outsideOrch, escalated_before>>
    /\ LET stage == workflow_def[idx].stage IN
       /\ tasks' = [tasks EXCEPT ![stage].status = COMPLETED,
                                 ![stage].output_data = "output"]
       /\ completed_stages' = Append(completed_stages, stage)
       /\ outputs' = outputs \cup {stage}
       /\ context' = _update_context(stage, context)
       /\ events' = Append(events, Event(idx, stage, "completed", NoError, FALSE))
       /\ UNCHANGED <<workflow_def, failed_stages>>
       /\ EndIteration(FALSE, Append(completed_stages, stage), failed_stages,
                       outputs \cup {stage})

\* agent.execute raised
WorkerRaises(exc) ==
    /\ pc = "executing"
    /\ UNCHANGED <<outsideOrch, escalated_before>>
    /\ ExceptBlock(workflow_def[idx].stage, exc, tasks)
    /\ UNCHANGED workflow_def

Next ==
    \/ StartRun(Workflows)
    \/ BlockStage
    \/ Dispatch
    \/ AgentNotFound
    \/ WorkerReturns
    \/ \E exc \in {ContractViolationError, WorkerError} : WorkerRaises(exc)

Spec == Init /\ [][Next]_vars

\* the workflows that declare every stage once
DeclaredOnce(wd) ==
    \A i, j \in DOMAIN wd : wd[i].stage = wd[j].stage => i = j

DeclaredOnceWorkflows == {wd \in Workflows : DeclaredOnce(wd)}

NextOnce ==
    \/ StartRun(DeclaredOnceWorkflows)
    \/ BlockStage
    \/ Dispatch
    \/ AgentNotFound
    \/ WorkerReturns
    \/ \E exc \in {ContractViolationError, WorkerError} : WorkerRaises(exc)

\* runs of workflows that declare every stage once
SpecOnce == Init /\ [][NextOnce]_vars

\* the default workflow, its filtered forms, the workflows that repeat a
\* routed stage and every list of 1..MaxLiveLen declarations
LiveWorkflows ==
    FilteredWorkflows \cup RepeatWorkflows
    \cup UNION {[1..n -> CustomDecls] : n \in 1..MaxLiveLen}

\* agent.execute returned or raised
WorkerAnswers ==
    \/ WorkerReturns
    \/ \E exc \in {ContractViolationError, WorkerError} : WorkerRaises(exc)

NextLive ==
    \/ StartRun(LiveWorkflows)
    \/ BlockStage
    \/ Dispatch
    \/ AgentNotFound
    \/ WorkerAnswers

\* the coroutine of run_workflow goes on whenever it can, and every awaited
\* agent.execute eventually returns or raises
Fairness ==
    /\ WF_vars(BlockStage)
    /\ WF_vars(Dispatch)
    /\ WF_vars(AgentNotFound)
    /\ WF_vars(WorkerAnswers)

\* runs in which every step that can be taken eventually is
SpecLive == Init /\ [][NextLive]_vars /\ Fairness

----------------------------------------------------------------------------
(* Calls on the evaluation system *)

\* the workers whose scorecards the calls name
EvalAgents == {"ImplementationAgent", "ReviewerAgent"}

\* the score dicts passed to record_task_result: none, correctness alone,
\* correctness with compliance, and the two dicts of the worker wrapper
TaskScores ==
    {EmptyDict,
     (CORRECTNESS :> 0),
     (CORRECTNESS :> 100) @@ (COMPLIANCE :> 100),
     (CORRECTNESS :> 100) @@ (EFFICIENCY :> 100)}

\* the score dicts of a series of results: 95 on correctness and compliance
\* (the scores of test_autonomy_adjustment), 100 in every category, and the
\* failure scores of the worker wrapper
SeriesScores ==
    {(CORRECTNESS :> 95) @@ (COMPLIANCE :> 95),
     [c \in ScoreCategory |-> 100],
     (CORRECTNESS :> 0)}

\* (build_success, test_coverage, test_passed, test_failed)
BuildResults == {<<TRUE, 120, 1, 0>>, <<FALSE, -1, 1, 1>>}

\* EvaluationSystem.record_task_result
RecordTaskResult(agents, outcomes, dicts, bound) ==
    /\ calls < bound
    /\ \E a \in agents, success \in outcomes, scores \in dicts :
          /\ _scorecards' = record_task_result(_scorecards, a, success, scores, "task")
          /\ eval_call' = EvalCall("record_task_result", a, success, scores)
    /\ scorecards_file' = SavedScorecards(_scorecards')
    /\ calls' = calls + 1
    /\ UNCHANGED outsideEval

\* EvaluationSystem.record_build_result
RecordBuildResult ==
    /\ calls < MaxCalls
    /\ \E a \in {"ImplementationAgent"}, b \in BuildResults :
          /\ _scorecards' = record_build_result(_scorecards, a, b[1], b[2], b[3], b[4])
          /\ eval_call' = EvalCall("record_build_result", a, b[1] /\ b[4] = 0, EmptyDict)
    /\ scorecards_file' = SavedScorecards(_scorecards')
    /\ calls' = calls + 1
    /\ UNCHANGED outsideEval

\* EvaluationSystem.record_review_result
RecordReviewResult ==
    /\ calls < MaxCalls
    /\ \E reviewer \in EvalAgents, violations \in {3} :
          /\ _scorecards' = record_review_result(_scorecards, reviewer,
                                                 "ImplementationAgent", violations, 5)
          /\ eval_call' = EvalCall("record_review_result", reviewer, FALSE, EmptyDict)
    /\ scorecards_file' = SavedScorecards(_scorecards')
    /\ calls' = calls + 1
    /\ UNCHANGED outsideEval

\* get_scorecard(name).record_escalation(), as BaseAgent.escalate calls it:
\* nothing is saved
RecordEscalation ==
    /\ calls < MaxCalls
    /\ \E a \in EvalAgents :
          /\ _scorecards' = [get_scorecard(_scorecards, a) EXCEPT
                                ![a] = record_escalation(@)]
          /\ eval_call' = EvalCall("record_escalation", a, FALSE, EmptyDict)
    /\ calls' = calls + 1
    /\ UNCHANGED <<scorecards_file, outsideEval>>

\* EvaluationSystem.get_scorecard and get_recommendations: both get or create
\* the scorecard and change nothing else
ReadScorecard ==
    /\ calls < MaxCalls
    /\ \E a \in {"ReviewerAgent"}, op \in {"get_scorecard", "get_recommendations"} :
          /\ _scorecards' = get_scorecard(_scorecards, a)
          /\ eval_call' = EvalCall(op, a, FALSE, EmptyDict)
    /\ calls' = calls + 1
    /\ UNCHANGED <<scorecards_file, outsideEval>>

\* more than 30 days pass: every score entry leaves the window of get_average
AdvanceClock ==
    /\ calls < MaxCalls
    /\ _scorecards' = AgedScorecards(_scorecards)
    /\ eval_call' = EvalCall("advance_clock", "None", FALSE, EmptyDict)
    /\ calls' = calls + 1
    /\ UNCHANGED <<scorecards_file, outsideEval>>

\* EvaluationSystem.__init__ on the same storage path: the scorecards are
\* read back from scorecards.json
Reload ==
    /\ calls < MaxCalls
    /\ _scorecards' = LoadedScorecards(scorecards_file)
    /\ eval_call' = EvalCall("reload", "None", FALSE, EmptyDict)
    /\ calls' = calls + 1
    /\ UNCHANGED <<scorecards_file, outsideEval>>

NextEval ==
    \/ RecordTaskResult({"ImplementationAgent"}, BOOLEAN, TaskScores, MaxCalls)
    \/ RecordBuildResult
    \/ RecordReviewResult
    \/ RecordEscalation
    \/ ReadScorecard
    \/ AdvanceClock
    \/ Reload

\* any sequence of calls on one evaluation system
SpecEval == Init /\ [][NextEval]_vars

NextSeries ==
    RecordTaskResult({"GoodAgent"}, BOOLEAN, SeriesScores, MaxResults)

\* task results recorded in a row for one fresh scorecard
SpecSeries == Init /\ [][NextSeries]_vars

----------------------------------------------------------------------------
(* Execute calls on a worker wrapper *)

\* how many execute calls were started
Executes == Cardinality({k \in DOMAIN exec_trace : exec_trace[k].step = "start"})

\* the stores as an execute call finds them
CurrentStores == Stores(_scorecards, _entries, calls)

\* the stores as an execute call leaves them: record_task_result saves
\* scorecards.json whenever it runs
LeaveStores(st, success) ==
    /\ _scorecards' = st.cards
    /\ _entries' = st.entries
    /\ IF st.entries = _entries
       THEN UNCHANGED memories_file
       ELSE memories_file' = SavedEntries(st.entries, clock)
    /\ calls' = st.now
    /\ IF st.cards = _scorecards
       THEN UNCHANGED <<scorecards_file, eval_call>>
       ELSE /\ scorecards_file' = SavedScorecards(st.cards)
            /\ eval_call' = EvalCall("record_task_result", Worker, success, EmptyDict)

\* BaseAgent.execute up to "await self._execute_impl(input_data)": the input
\* is validated, the task is stored in working memory and the worker logic is
\* invoked; an input with an error-severity violation raises before that
ExecuteStart(sequential) ==
    /\ Executes < MaxExecutes
    /\ sequential => \A q \in RequestIds : exec_pc[q] # "impl"
    /\ \E r \in RequestIds, violations \in ViolationLists :
          /\ exec_pc[r] # "impl"
          /\ _current_task_id' = r
          /\ _task_start_time' = "set"
          /\ exec_input' = [exec_input EXCEPT ![r] = violations]
          /\ IF HasErrorSeverity(violations)
             THEN /\ exec_pc' = [exec_pc EXCEPT ![r] = "raised"]
                  /\ exec_error' = [exec_error EXCEPT ![r] = ContractViolationError]
                  /\ exec_trace' = exec_trace \o
                        <<ExecStep(r, "start"), ExecStep(r, "raise")>>
                  /\ UNCHANGED <<_entries, memories_file>>
             ELSE /\ exec_pc' = [exec_pc EXCEPT ![r] = "impl"]
                  /\ exec_error' = [exec_error EXCEPT ![r] = NoError]
                  /\ _entries' = remember(_entries, Worker,
                                    Content("task", r, WorkerInputType, 0),
                                    WORKING, 10, {"task", "current"}, clock)
                  /\ memories_file' = SavedEntries(_entries', clock)
                  /\ exec_trace' = exec_trace \o
                        <<ExecStep(r, "start"), ExecStep(r, "remember"),
                          ExecStep(r, "impl")>>
    /\ UNCHANGED <<evalVars, outsideExec>>

\* the worker logic (_execute_impl of a subclass) stores a memory entry
ImplWrites ==
    /\ \E r \in RequestIds :
          /\ exec_pc[r] = "impl"
          /\ _generate_id(Content("note", r, "worker_note", 0)) \notin DOMAIN _entries
          /\ _entries' = remember(_entries, Worker,
                            Content("note", r, "worker_note", 0), PROJECT, 10,
                            {"note"}, clock)
          /\ memories_file' = SavedEntries(_entries', clock)
          /\ exec_trace' = Append(exec_trace, ExecStep(r, "worker_write"))
    /\ UNCHANGED <<_current_task_id, _task_start_time, exec_pc, exec_input,
                   exec_error, evalVars, outsideExec>>

\* _execute_impl returned an output: the output is validated; an error-severity
\* violation records the failure and raises inside the try block, where the
\* except clause records the failure again and re-raises; otherwise the
\* success is recorded and the output returned
ImplReturns ==
    /\ \E r \in RequestIds, violations \in ViolationLists :
          /\ exec_pc[r] = "impl"
          /\ IF HasErrorSeverity(violations)
             THEN /\ LeaveStores(
                        _record_failure(
                            _record_failure(CurrentStores, _current_task_id,
                                            "output_validation_failed"),
                            _current_task_id, "Output contract violation"),
                        FALSE)
                  /\ exec_pc' = [exec_pc EXCEPT ![r] = "raised"]
                  /\ exec_error' = [exec_error EXCEPT ![r] = ContractViolationError]
                  /\ exec_trace' = exec_trace \o
                        <<ExecStep(r, "output_violation"),
                          ExecStep(r, "record_failure"),
                          ExecStep(r, "record_failure"), ExecStep(r, "raise")>>
             ELSE /\ LeaveStores(
                        _record_success(CurrentStores, _current_task_id,
                                        _task_start_time),
                        TRUE)
                  /\ exec_pc' = [exec_pc EXCEPT ![r] = "returned"]
                  /\ exec_error' = [exec_error EXCEPT ![r] = NoError]
                  /\ exec_trace' = exec_trace \o
                        <<ExecStep(r, "record_success"), ExecStep(r, "return")>>
    /\ UNCHANGED <<_current_task_id, _task_start_time, exec_input, outsideExec>>

\* _execute_impl raised: the except clause records the failure and re-raises
ImplRaises ==
    /\ \E r \in RequestIds :
          /\ exec_pc[r] = "impl"
          /\ LeaveStores(_record_failure(CurrentStores, _current_task_id, WorkerError),
                         FALSE)
          /\ exec_pc' = [exec_pc EXCEPT ![r] = "raised"]
          /\ exec_error' = [exec_error EXCEPT ![r] = WorkerError]
          /\ exec_trace' = exec_trace \o
                <<ExecStep(r, "record_failure"), ExecStep(r, "raise")>>
    /\ UNCHANGED <<_current_task_id, _task_start_time, exec_input, outsideExec>>

NextExec ==
    \/ ExecuteStart(TRUE)
    \/ ImplWrites
    \/ ImplReturns
    \/ ImplRaises

\* execute calls made on one worker, one after the other
SpecExec == Init /\ [][NextExec]_vars

NextInterleaved ==
    \/ ExecuteStart(FALSE)
    \/ ImplWrites
    \/ ImplReturns
    \/ ImplRaises

\* execute calls of two runs on one worker instance: a call can start while
\* another is suspended at "await self._execute_impl(input_data)"
SpecInterleaved == Init /\ [][NextInterleaved]_vars

----------------------------------------------------------------------------
(* Escalation and resolution calls on the orchestrator *)

\* the participant lists passed to escalate_conflict: none, the two of
\* test_escalation, two of authority 5 and 7, the architect alone and with
\* another worker, and a name the orchestrator does not hold
ParticipantLists ==
    {<<>>,
     <<"ProductAgent", "ImplementationAgent">>,
     <<"ImplementationAgent", "ReviewerAgent">>,
     <<"ArchitectAgent">>,
     <<"ProductAgent", "ArchitectAgent">>,
     <<UnknownAgent>>}

\* the resolution payloads passed to resolve_conflict
Resolutions == {"accept", "reject"}

\* Orchestrator.escalate_conflict
EscalateConflict(lists) ==
    /\ Len(_escalations) < MaxConflicts
    /\ \E agents_involved \in lists :
          LET conflict == ConflictRecord(uuid4(uuid_count + 1), "topic",
                                         agents_involved, "evidence",
                                         decision_owner(agents_involved))
          IN /\ _escalations' = Append(_escalations, conflict)
             /\ conflict_call' = ConflictCall("escalate_conflict", conflict.conflict_id,
                                              "None", TRUE, conflict_call.n + 1)
    /\ uuid_count' = uuid_count + 1
    /\ UNCHANGED <<orchVars, evalVars, execVars, memVars, callerVars, artifactVars>>

\* Orchestrator.resolve_conflict, with the id of a conflict or an unknown id
ResolveConflict ==
    /\ conflict_call.n - Len(_escalations) < MaxResolves
    /\ \E n \in 1..(uuid_count + 1), resolution \in Resolutions :
          LET r == resolve_conflict(_escalations, uuid4(n), resolution,
                                    conflict_call.n + 1)
          IN /\ _escalations' = r.escalations
             /\ conflict_call' = ConflictCall("resolve_conflict", uuid4(n), resolution,
                                              r.returned, conflict_call.n + 1)
    /\ UNCHANGED <<uuid_count, orchVars, evalVars, execVars, memVars, callerVars,
                   artifactVars>>

NextConflict ==
    \/ EscalateConflict(ParticipantLists)
    \/ ResolveConflict

\* escalations and resolutions on one orchestrator
SpecConflict == Init /\ [][NextConflict]_vars

\* the workflows run next to escalations: the default workflow and one stage
\* whose agent the orchestrator does not hold
EscalationRunWorkflows ==
    {DEFAULT_WORKFLOW, <<StageDecl(REQUIREMENTS, UnknownAgent, {})>>}

\* the participants of test_escalation
TestParticipants == {<<"ProductAgent", "ImplementationAgent">>}

NextRunEscalations ==
    \/ StartRun(EscalationRunWorkflows)
    \/ BlockStage
    \/ Dispatch
    \/ AgentNotFound
    \/ WorkerReturns
    \/ \E exc \in {ContractViolationError, WorkerError} : WorkerRaises(exc)
    \/ EscalateConflict(TestParticipants)

\* one workflow run on an orchestrator that receives escalate_conflict calls
\* before the run, while it awaits a worker, and after it
SpecRunEscalations == Init /\ [][NextRunEscalations]_vars

----------------------------------------------------------------------------
(* Calls on the memory store *)

\* the arguments of a store call
StoreInput(content, scope, source, confidence, decay_policy, tags) ==
    [content |-> content, scope |-> scope, source |-> source,
     confidence |-> confidence, decay_policy |-> decay_policy, tags |-> tags]

\* the store calls made while the clock runs: a working-memory note at full
\* confidence, a permanent skill at confidence 0.5, a second working-memory
\* note at confidence 0.5, and the content of the first stored again by
\* another worker as a permanent skill at confidence 0.5
StoreInputs ==
    {StoreInput(Content("note", "t1", "hello", 0), WORKING, "ProductAgent", 10,
                "None", {"task"}),
     StoreInput(Content("pattern", "t2", "world", 0), SKILL, "ArchitectAgent", 5,
                PERMANENT, {"pattern"}),
     StoreInput(Content("note", "t3", "hello", 0), WORKING, "ArchitectAgent", 5,
                "None", {"task", "pattern"}),
     StoreInput(Content("note", "t1", "hello", 0), SKILL, "ImplementationAgent", 5,
                PERMANENT, {})}

\* the store calls made at one instant: every decay policy, three confidences
FreshInputs ==
    {StoreInput(Content("note", task_id, "hello", 0), WORKING, "ProductAgent",
                confidence, decay_policy, {})
     : task_id \in {"t1", "t2"}, confidence \in {10, 5, 0},
       decay_policy \in DecayPolicy}

StoredIds == {_generate_id(i.content) : i \in StoreInputs}

\* the arguments of a retrieve call
RetrieveInput(f, limit) == [f |-> f, limit |-> limit]

\* the retrieve calls: by id, by scope with limit 1, by source with a higher
\* min_strength, by tags, and with no filter, with limit 1 and the default
RetrieveInputs ==
    {RetrieveInput(Filters({id}, "None", "None", {}, default_threshold), 100) :
        id \in StoredIds}
    \cup {RetrieveInput(Filters({}, WORKING, "None", {}, default_threshold), 1),
          RetrieveInput(Filters({}, "None", "ArchitectAgent", {}, 5), 100),
          RetrieveInput(Filters({}, "None", "None", {"pattern"}, default_threshold), 100),
          RetrieveInput(Filters({}, "None", "None", {}, default_threshold), 1),
          RetrieveInput(Filters({}, "None", "None", {}, default_threshold), 100)}

\* the arguments of a search call
SearchInput(query, scope, limit) == [query |-> query, scope |-> scope, limit |-> limit]

\* the search calls: the query of test_memory_search with limit 1 and inside
\* one scope, and a task id
SearchInputs ==
    {SearchInput("hello", "None", 1),
     SearchInput("hello", WORKING, 10),
     SearchInput("t2", "None", 10)}

\* MemoryStore.store
StoreEntry(inputs, bound) ==
    /\ calls < bound
    /\ \E i \in inputs :
          /\ _entries' = store(_entries, i.content, i.scope, i.source, i.confidence,
                               i.decay_policy, i.tags, clock)
          /\ mem_call' = MemoryCall("store", <<i>>,
                                 {_entries[k] : k \in DOMAIN _entries
                                                       \cap {_generate_id(i.content)}},
                                 _generate_id(i.content))
    /\ memories_file' = SavedEntries(_entries', clock)
    /\ calls' = calls + 1
    /\ UNCHANGED <<clock, outsideMemory>>

\* MemoryStore.retrieve
Retrieve ==
    /\ calls < MaxMemoryCalls
    /\ \E i \in RetrieveInputs :
          LET matches == RetrieveMatches(_entries, i.f, clock)
              after == Accessed(_entries, matches, clock)
          IN /\ _entries' = after
             /\ \E results \in SortedResults(after, matches, clock) :
                   mem_call' = MemoryCall("retrieve", <<i>>, matches,
                                          Limited(results, i.limit))
    /\ memories_file' = SavedEntries(_entries', clock)
    /\ calls' = calls + 1
    /\ UNCHANGED <<clock, outsideMemory>>

\* MemoryStore.search
Search ==
    /\ calls < MaxMemoryCalls
    /\ \E i \in SearchInputs :
          LET matches == SearchMatches(_entries, i.query, i.scope, clock)
              after == Accessed(_entries, matches, clock)
          IN /\ _entries' = after
             /\ \E results \in SortedResults(after, matches, clock) :
                   mem_call' = MemoryCall("search", <<i>>, matches,
                                          Limited(results, i.limit))
    /\ memories_file' = SavedEntries(_entries', clock)
    /\ calls' = calls + 1
    /\ UNCHANGED <<clock, outsideMemory>>

\* MemoryStore.forget: the file is saved when an entry was removed
Forget ==
    /\ calls < MaxMemoryCalls
    /\ \E entry_id \in StoredIds :
          LET r == forget(_entries, entry_id)
          IN /\ _entries' = r.entries
             /\ mem_call' = MemoryCall("forget", <<entry_id>>, {}, r.returned)
             /\ IF r.returned
                THEN memories_file' = SavedEntries(r.entries, clock)
                ELSE UNCHANGED memories_file
    /\ calls' = calls + 1
    /\ UNCHANGED <<clock, outsideMemory>>

\* MemoryStore.cleanup: the file is saved when entries were removed
Cleanup ==
    /\ calls < MaxMemoryCalls
    /\ \E threshold \in {default_threshold, 5} :
          LET r == cleanup(_entries, threshold, clock)
          IN /\ _entries' = r.entries
             /\ mem_call' = MemoryCall("cleanup", <<threshold>>, {}, r.returned)
             /\ IF r.returned > 0
                THEN memories_file' = SavedEntries(r.entries, clock)
                ELSE UNCHANGED memories_file
    /\ calls' = calls + 1
    /\ UNCHANGED <<clock, outsideMemory>>

\* MemoryStore.__init__ on the same storage path: the entries are read back
\* from memories.json
LoadMemory ==
    /\ calls < MaxMemoryCalls
    /\ _entries' = LoadedEntries(memories_file, clock)
    /\ mem_call' = MemoryCall("load", <<>>, {}, <<>>)
    /\ calls' = calls + 1
    /\ UNCHANGED <<memories_file, clock, outsideMemory>>

\* an hour passes
HourPasses ==
    /\ clock < MaxHours
    /\ clock' = clock + 1
    /\ UNCHANGED <<_entries, memories_file, mem_call, calls, outsideMemory>>

NextMemory ==
    \/ StoreEntry(StoreInputs, MaxMemoryCalls)
    \/ Retrieve
    \/ Search
    \/ Forget
    \/ Cleanup
    \/ LoadMemory
    \/ HourPasses

\* any sequence of calls on one memory store, with hours passing in between
SpecMemory == Init /\ [][NextMemory]_vars

NextFresh ==
    StoreEntry(FreshInputs, MaxStores)

\* entries stored and read at one instant
SpecFresh == Init /\ [][NextFresh]_vars

----------------------------------------------------------------------------
(* Calls made on the shared stores by several callers *)

\* the calls the callers make: two working-memory notes stored, a retrieve
\* with no filter, a forget, a cleanup, and a success and a failure recorded
CallerCalls ==
    <<StoreCall("store", StoreInput(Content("note", "t1", "hello", 0), WORKING,
                                    "ProductAgent", 10, "None", {"task"})),
      StoreCall("store", StoreInput(Content("note", "t3", "hello", 0), WORKING,
                                    "ArchitectAgent", 5, "None", {"task"})),
      StoreCall("retrieve", Filters({}, "None", "None", {}, default_threshold)),
      StoreCall("forget", _generate_id(Content("note", "t1", "hello", 0))),
      StoreCall("cleanup", 5),
      StoreCall("record_task_result",
                TaskResult("ImplementationAgent", TRUE,
                           (CORRECTNESS :> 100) @@ (EFFICIENCY :> 100))),
      StoreCall("record_task_result",
                TaskResult("ImplementationAgent", FALSE, (CORRECTNESS :> 0)))>>

\* the call caller c is inside
CallOf(c) == CallerCalls[in_call[c].call]

\* caller c is at statement pc of method op
At(c, op, statement) ==
    /\ CanRun(c)
    /\ in_call[c].pc = statement
    /\ in_call[c].call # 0
    /\ CallOf(c).op = op

\* no caller is inside a call
AllIdle == \A c \in Callers : in_call[c].pc = "idle"

\* a caller calls a method of a store
BeginCall ==
    /\ calls < MaxCallerCalls
    /\ \E c \in Callers, k \in DOMAIN CallerCalls :
          /\ CanRun(c)
          /\ in_call[c].pc = "idle"
          /\ in_call' = [in_call EXCEPT ![c] =
                            InCall(k, FirstStatement(CallerCalls[k].op),
                                   IF CallerCalls[k].op = "retrieve"
                                   THEN DOMAIN _entries ELSE {}, {})]
          /\ serial' = Applied(serial, c, CallerCalls[k], clock)
    /\ calls' = calls + 1
    /\ UNCHANGED <<_entries, memories_file, _scorecards, scorecards_file,
                   outsideCallers>>

\* store: "self._entries[entry_id] = entry"
StoreInsert ==
    \E c \in Callers :
        /\ At(c, "store", "insert")
        /\ LET i == CallOf(c).input
           IN _entries' = store(_entries, i.content, i.scope, i.source,
                                i.confidence, i.decay_policy, i.tags, clock)
        /\ in_call' = [in_call EXCEPT ![c].pc = "save"]
        /\ UNCHANGED <<memories_file, _scorecards, scorecards_file, serial, calls,
                       outsideCallers>>

\* retrieve: one turn of "for entry in self._entries.values()" up to the
\* first statement of entry.access(), "self.last_accessed = datetime.now()"
RetrieveVisit ==
    \E c \in Callers :
        /\ At(c, "retrieve", "loop")
        /\ \E k \in in_call[c].todo :
              IF k \in RetrieveMatches(_entries, CallOf(c).input, clock)
              THEN /\ _entries' = [_entries EXCEPT ![k].last_accessed = clock]
                   /\ in_call' = [in_call EXCEPT ![c].pc = "access_count",
                                                 ![c].todo = @ \ {k},
                                                 ![c].at = {k}]
              ELSE /\ in_call' = [in_call EXCEPT ![c].todo = @ \ {k}]
                   /\ UNCHANGED _entries
        /\ UNCHANGED <<memories_file, _scorecards, scorecards_file, serial, calls,
                       outsideCallers>>

\* retrieve: the second statement of entry.access(), "self.access_count += 1",
\* and "results.append(entry)"
AccessCount ==
    \E c \in Callers :
        /\ At(c, "retrieve", "access_count")
        /\ _entries' = [k \in DOMAIN _entries |->
                            IF k \in in_call[c].at
                            THEN [_entries[k] EXCEPT !.access_count = @ + 1]
                            ELSE _entries[k]]
        /\ in_call' = [in_call EXCEPT ![c].pc = "loop", ![c].at = {}]
        /\ UNCHANGED <<memories_file, _scorecards, scorecards_file, serial, calls,
                       outsideCallers>>

\* retrieve: the loop is over, "results.sort(...)"
RetrieveSort ==
    \E c \in Callers :
        /\ At(c, "retrieve", "loop")
        /\ in_call[c].todo = {}
        /\ in_call' = [in_call EXCEPT ![c].pc = "save"]
        /\ UNCHANGED <<_entries, memories_file, _scorecards, scorecards_file,
                       serial, calls, outsideCallers>>

\* forget: "if entry_id in self._entries: del self._entries[entry_id]", else
\* "return False"
ForgetDelete ==
    \E c \in Callers :
        /\ At(c, "forget", "delete")
        /\ LET entry_id == CallOf(c).input IN
           IF entry_id \in DOMAIN _entries
           THEN /\ _entries' = [k \in DOMAIN _entries \ {entry_id} |-> _entries[k]]
                /\ in_call' = [in_call EXCEPT ![c].pc = "save"]
           ELSE /\ in_call' = [in_call EXCEPT ![c] = Idle]
                /\ UNCHANGED _entries
        /\ UNCHANGED <<memories_file, _scorecards, scorecards_file, serial, calls,
                       outsideCallers>>

\* cleanup: "expired = [id for id, entry in self._entries.items() if
\* entry.is_expired(threshold)]"; with nothing expired the call returns 0
CleanupScan ==
    \E c \in Callers :
        /\ At(c, "cleanup", "scan")
        /\ LET expired == {k \in DOMAIN _entries :
                              is_expired(_entries[k], CallOf(c).input, clock)}
           IN in_call' = [in_call EXCEPT ![c] =
                            IF expired = {} THEN Idle
                            ELSE InCall(in_call[c].call, "delete", expired, expired)]
        /\ UNCHANGED <<_entries, memories_file, _scorecards, scorecards_file,
                       serial, calls, outsideCallers>>

\* cleanup: one turn of "for id in expired: del self._entries[id]"
CleanupDelete ==
    \E c \in Callers :
        /\ At(c, "cleanup", "delete")
        /\ \E id \in in_call[c].todo :
              /\ _entries' = [k \in DOMAIN _entries \ {id} |-> _entries[k]]
              /\ in_call' = [in_call EXCEPT
                                ![c].todo = @ \ {id},
                                ![c].pc = IF in_call[c].todo = {id}
                                          THEN "save" ELSE "delete"]
        /\ UNCHANGED <<memories_file, _scorecards, scorecards_file, serial, calls,
                       outsideCallers>>

\* store, retrieve, forget, cleanup: "self._save()" and the return
SaveEntries ==
    \E c \in Callers :
        /\ At(c, CallOf(c).op, "save")
        /\ CallOf(c).op # "record_task_result"
        /\ memories_file' = SavedEntries(_entries, clock)
        /\ in_call' = [in_call EXCEPT ![c] = Idle]
        /\ UNCHANGED <<_entries, _scorecards, scorecards_file, serial, calls,
                       outsideCallers>>

\* record_task_result: "scorecard = self.get_scorecard(agent_name)"
GetScorecard ==
    \E c \in Callers :
        /\ At(c, "record_task_result", "get_scorecard")
        /\ _scorecards' = get_scorecard(_scorecards, CallOf(c).input.agent_name)
        /\ in_call' = [in_call EXCEPT ![c].pc = "count"]
        /\ UNCHANGED <<_entries, memories_file, scorecards_file, serial, calls,
                       outsideCallers>>

\* record_task_result: "scorecard.record_success()" or
\* "scorecard.record_failure()"
CountResult ==
    \E c \in Callers :
        /\ At(c, "record_task_result", "count")
        /\ LET i == CallOf(c).input
           IN _scorecards' = [_scorecards EXCEPT ![i.agent_name] =
                                IF i.success THEN record_success(@)
                                ELSE record_failure(@)]
        /\ in_call' = [in_call EXCEPT ![c].pc = "add_score"]
        /\ UNCHANGED <<_entries, memories_file, scorecards_file, serial, calls,
                       outsideCallers>>

\* record_task_result: "for category, score in scores.items():
\* scorecard.add_score(category, score, task_id)"
AddScores ==
    \E c \in Callers :
        /\ At(c, "record_task_result", "add_score")
        /\ LET i == CallOf(c).input
           IN _scorecards' = [_scorecards EXCEPT ![i.agent_name] =
                                add_scores(@, i.scores, "task")]
        /\ in_call' = [in_call EXCEPT ![c].pc = "adjust_autonomy"]
        /\ UNCHANGED <<_entries, memories_file, scorecards_file, serial, calls,
                       outsideCallers>>

\* record_task_result: "scorecard.adjust_autonomy()"
AdjustAutonomy ==
    \E c \in Callers :
        /\ At(c, "record_task_result", "adjust_autonomy")
        /\ _scorecards' = [_scorecards EXCEPT
                              ![CallOf(c).input.agent_name] = adjust_autonomy(@)]
        /\ in_call' = [in_call EXCEPT ![c].pc = "save"]
        /\ UNCHANGED <<_entries, memories_file, scorecards_file, serial, calls,
                       outsideCallers>>

\* record_task_result: "self._save()" and the return
SaveScorecards ==
    \E c \in Callers :
        /\ At(c, "record_task_result", "save")
        /\ scorecards_file' = SavedScorecards(_scorecards)
        /\ in_call' = [in_call EXCEPT ![c] = Idle]
        /\ UNCHANGED <<_entries, memories_file, _scorecards, serial, calls,
                       outsideCallers>>

\* an hour passes between two calls
HourPassesBetweenCalls ==
    /\ AllIdle
    /\ HourPasses

NextCallers ==
    \/ BeginCall
    \/ StoreInsert
    \/ RetrieveVisit
    \/ AccessCount
    \/ RetrieveSort
    \/ ForgetDelete
    \/ CleanupScan
    \/ CleanupDelete
    \/ SaveEntries
    \/ GetScorecard
    \/ CountResult
    \/ AddScores
    \/ AdjustAutonomy
    \/ SaveScorecards
    \/ HourPassesBetweenCalls

\* two callers on one memory store and one evaluation system
SpecCallers == Init /\ [][NextCallers]_vars

----------------------------------------------------------------------------
(* Calls on the artifact store *)

\* the artifacts created: the one of test_ownership_enforcement, the one of
\* the update test (a type with no entry in ARTIFACT_OWNERS), and a source file
CreateInputs ==
    {<<"ARCHITECTURE.md", "# Arch", ArtifactType_ARCHITECTURE, "ArchitectAgent">>,
     <<"test.md", "# Test v1", ArtifactType_DOCUMENTATION, "TestAgent">>,
     <<"main.py", "# Arch", ArtifactType_SOURCE_CODE, "ArchitectAgent">>}

ArtifactNames == {i[1] : i \in CreateInputs}
ArtifactAgents == {"ArchitectAgent", "ImplementationAgent", "TestAgent"}

\* the contents written by update calls
UpdateContents == {"# Modified", "# Test v2"}

\* what _git_commit returns: a sha, or None when git is missing or the commit
\* fails
CommitShas == {"None", "sha"}

\* ArtifactStore.create
Create ==
    /\ artifact_call.n < MaxArtifactCalls
    /\ \E i \in CreateInputs, commit_sha \in CommitShas :
          /\ _artifacts' = create(_artifacts, i[1], i[2], i[3], i[4], commit_sha, clock)
          /\ artifacts_dir' = Dir(Written(artifacts_dir.files, i[1], i[2]),
                                  SavedMetadata(_artifacts'))
          /\ artifact_call' = ArtifactCall("create", i[1], i[4], i[2], FALSE, "None",
                                           artifact_call.n + 1)
    /\ UNCHANGED outsideArtifacts

\* ArtifactStore.update: nothing is written when the name is unknown or the
\* ownership check raises
Update ==
    /\ artifact_call.n < MaxArtifactCalls
    /\ \E name \in ArtifactNames, updated_by \in ArtifactAgents, force \in BOOLEAN,
          content \in UpdateContents, commit_sha \in CommitShas :
          LET r == update(_artifacts, name, content, updated_by, force,
                          commit_sha, clock)
          IN /\ _artifacts' = r.artifacts
             /\ artifacts_dir' =
                    IF r.returned
                    THEN Dir(Written(artifacts_dir.files, name, content),
                             SavedMetadata(r.artifacts))
                    ELSE artifacts_dir
             /\ artifact_call' = ArtifactCall("update", name, updated_by, content,
                                              force, r.raised, artifact_call.n + 1)
    /\ UNCHANGED outsideArtifacts

\* ArtifactStore.__init__ on the same project root: the artifacts are read
\* back from metadata.json and the artifact files
LoadArtifacts ==
    /\ artifact_call.n < MaxArtifactCalls
    /\ _artifacts' = LoadedArtifacts(artifacts_dir, clock)
    /\ artifact_call' = ArtifactCall("load", "None", "None", "", FALSE, "None",
                                     artifact_call.n + 1)
    /\ UNCHANGED <<artifacts_dir, outsideArtifacts>>

NextArtifacts ==
    \/ Create
    \/ Update
    \/ LoadArtifacts

\* any sequence of calls on one artifact store
SpecArtifacts == Init /\ [][NextArtifacts]_vars

----------------------------------------------------------------------------
(* Vocabulary of the properties *)

Last(seq) == seq[Len(seq)]

Running == pc \in {"loop", "executing"}

\* the stage of the entry the loop is at
CurrentStage == workflow_def[idx].stage

\* the stages a task lists as dependencies
DependencyStages(task) == {d \in WorkflowStage : TaskId(d) \in task.dependencies}

EventsOf(kind) == {k \in DOMAIN events : events[k].kind = kind}

\* how many times the worker of a stage was dispatched
DispatchCount(stage) ==
    Cardinality({k \in EventsOf("dispatched") : events[k].stage = stage})

\* how many times the workflow declares a stage
DeclCount(stage) ==
    Cardinality({i \in DOMAIN workflow_def : workflow_def[i].stage = stage})

InSeq(x, seq) == \E k \in DOMAIN seq : seq[k] = x

\* this step dispatches the worker of stage s
DispatchStep(s) == tasks[s].status # RUNNING /\ tasks'[s].status = RUNNING

\* this step records a worker (or agent lookup) failure
FailureStep ==
    /\ Len(events') = Len(events) + 1
    /\ Last(events').kind = "failed"

\* this step marks the current stage blocked
BlockStep ==
    /\ Len(events') = Len(events) + 1
    /\ Last(events').kind = "blocked"

----------------------------------------------------------------------------
(* C1 *)

\* C1 as stated: a stage's worker is dispatched only if every dependency
\* stage declared for it has a task whose status is completed at that moment.
C1_DispatchOnlyIfEveryDeclaredDepCompleted ==
    [][pc = "loop" =>
        (DispatchStep(CurrentStage) =>
            \A d \in DependencyStages(tasks[CurrentStage]) :
                d \in DOMAIN tasks /\ tasks[d].status = COMPLETED)]_vars

\* C1 amended: a stage's worker is dispatched only if every stage that the
\* stage's task lists as a dependency and that the workflow itself declares has
\* a task whose status is completed at that moment (dependencies on stages the
\* workflow does not declare are ignored); otherwise the stage is marked
\* blocked and appended to stages_failed without being dispatched.
C1_DispatchOnlyIfDeclaredDepsCompleted ==
    [][pc = "loop" =>
        LET s == CurrentStage
            depsCompleted ==
                \A d \in DependencyStages(tasks[s]) \cap DOMAIN tasks :
                    tasks[d].status = COMPLETED
        IN /\ DispatchStep(s) => depsCompleted
           /\ ~depsCompleted =>
                /\ tasks'[s].status = BLOCKED
                /\ failed_stages' = Append(failed_stages, s)
                /\ BlockStep
                /\ EventsOf("dispatched")' = EventsOf("dispatched")]_vars

\* C1 witness: a run that dispatched a stage after its declared dependency
\* completed, dispatched a stage whose dependency the workflow does not
\* declare, and blocked a stage
C1_Witness ==
    /\ pc = "returned"
    /\ EventsOf("blocked") # {}
    /\ \E k \in EventsOf("dispatched") :
          DependencyStages(tasks[events[k].stage]) \cap DOMAIN tasks # {}
    /\ \E k \in EventsOf("dispatched") :
          DependencyStages(tasks[events[k].stage]) \ DOMAIN tasks # {}

----------------------------------------------------------------------------
(* C2 *)

----------------------------------------------------------------------------
(* C3 *)

\* C3 as stated: in the result of a run every stage whose worker was
\* dispatched is in exactly one of stages_completed and stages_failed.
C3_DispatchedStageInExactlyOneList ==
    pc = "returned" =>
        \A k \in EventsOf("dispatched") :
            InSeq(events[k].stage, result.stages_completed)
                # InSeq(events[k].stage, result.stages_failed)

----------------------------------------------------------------------------
(* C4 *)

\* C4: run_workflow never raises to its caller: whatever the workflow and
\* whatever each dispatch ends with (an output, ContractViolationError, any
\* other exception, an unknown agent name), no exception leaves run_workflow,
\* and a finished run has returned a WorkflowResult that carries the failure.
C4_NeverRaises ==
    /\ pc # "raised"
    /\ pc = "returned" =>
          /\ result.returned
          /\ (EventsOf("failed") # {} /\ ~Last(events).handled
                /\ Last(events).kind = "failed") => ~result.success
    /\ pc # "returned" => result = NoResult

\* C4 witness: a returned run in which one dispatch gave an output, one raised
\* ContractViolationError and one named an unknown agent
C4_Witness ==
    /\ pc = "returned"
    /\ EventsOf("completed") # {}
    /\ \E k \in EventsOf("failed") : events[k].exc = ContractViolationError
    /\ \E k \in EventsOf("failed") : events[k].exc = ValueError

----------------------------------------------------------------------------
(* C5 *)

\* C5 as stated: where stage B depends on stage A and A's worker raises a
\* ContractViolation, the run ends with B's task blocked, success=False and A
\* in stages_failed; and if A has no routing target B is never attempted.
C5_DependentBlockedAndFailureListed ==
    pc = "returned" =>
        \A k \in EventsOf("failed") :
            \A B \in DOMAIN tasks :
                (/\ events[k].exc = ContractViolationError
                 /\ B # events[k].stage
                 /\ events[k].stage \in DependencyStages(tasks[B]))
                => /\ tasks[B].status = BLOCKED
                   /\ ~result.success
                   /\ InSeq(events[k].stage, result.stages_failed)
                   /\ FAILURE_ROUTING(events[k].stage) = NoTarget =>
                         \A m \in DOMAIN events : m > k => events[m].stage # B

----------------------------------------------------------------------------
(* C6 *)

\* C6: a run whose workflow is a single stage A without dependencies, and
\* whose worker for A succeeds, returns success=True with
\* stages_completed = [A] and stages_failed empty.
C6_SingleStageSucceeds ==
    (/\ pc = "returned"
     /\ Len(workflow_def) = 1
     /\ workflow_def[1].deps = {}
     /\ EventsOf("completed") # {})
    => /\ result.success
       /\ result.stages_completed = <<workflow_def[1].stage>>
       /\ result.stages_failed = <<>>

\* C6 witness: the one-stage run of the end-to-end test, returned
C6_Witness ==
    /\ pc = "returned"
    /\ workflow_def = <<StageDecl(REQUIREMENTS, "ProductAgent", {})>>
    /\ EventsOf("completed") # {}

----------------------------------------------------------------------------
(* C7 *)

\* C7 as stated: failure routing returns false if the failing stage has no
\* routing target or if the target's task has already reached max_retries; in
\* every other case where the target is part of the run the target task is
\* reset to pending and its retry_count grows by exactly one.
C7_RoutingChecksTargetRetries ==
    [][(Running /\ FailureStep) =>
        LET s == CurrentStage
            t == FAILURE_ROUTING(s)
        IN IF t = NoTarget
              \/ (t \in DOMAIN tasks /\ tasks[t].retry_count >= tasks[t].max_retries)
           THEN ~Last(events').handled
           ELSE t \in DOMAIN tasks =>
                   /\ Last(events').handled
                   /\ tasks'[t].status = PENDING
                   /\ tasks'[t].retry_count = tasks[t].retry_count + 1]_vars

----------------------------------------------------------------------------
(* C8 *)

\* C8 as stated: in every reachable state of a run every task's retry_count
\* is at most its max_retries.
C8_RetryCountBounded ==
    \A s \in DOMAIN tasks : tasks[s].retry_count <= tasks[s].max_retries

----------------------------------------------------------------------------
(* C9 *)

\* C9 as stated: within one run each declared stage's worker is dispatched at
\* most once.
C9_StageDispatchedAtMostOnce ==
    \A s \in DOMAIN tasks : DispatchCount(s) <= 1

\* C9 amended: within one run each declared entry of the workflow is
\* dispatched at most once, so a stage is dispatched at most as often as the
\* workflow declares it (at most once when it is declared once); the stage
\* loop never goes back to an earlier entry, and failure routing dispatches
\* nothing itself: a target reset to pending runs again in the same run only
\* through a later declaration of that stage.
C9_EntryDispatchedAtMostOnce ==
    /\ \A k1, k2 \in EventsOf("dispatched") :
          events[k1].idx = events[k2].idx => k1 = k2
    /\ \A k1, k2 \in DOMAIN events : k1 <= k2 => events[k1].idx <= events[k2].idx
    /\ \A k \in DOMAIN events : events[k].idx <= idx
    /\ \A s \in DOMAIN tasks : DispatchCount(s) <= DeclCount(s)

\* C9 witness: a returned run in which a failure was routed to a target that
\* had completed: the target is pending again and was dispatched once
C9_Witness ==
    /\ pc = "returned"
    /\ \E k \in EventsOf("failed") :
          /\ events[k].handled
          /\ LET t == FAILURE_ROUTING(events[k].stage) IN
             /\ tasks[t].status = PENDING
             /\ tasks[t].retry_count > 0
             /\ DispatchCount(t) = 1
             /\ InSeq(t, result.stages_completed)

----------------------------------------------------------------------------
(* C10 *)

\* an entry the loop visited
Examined(j) == \E k \in DOMAIN events : events[k].idx = j

\* C10 as stated: after a stage is marked blocked, run_workflow still
\* examines every later stage.
C10_EveryLaterStageExamined ==
    pc = "returned" =>
        \A k \in EventsOf("blocked") :
            \A j \in DOMAIN workflow_def : j > events[k].idx => Examined(j)

\* C10 amended: a blocked stage does not abort the run: marking a stage
\* blocked moves the loop to the next entry, every later entry is examined in
\* declaration order unless an unrouted worker failure at an entry in between
\* halts the run, and each later entry that is examined while all dependencies
\* of its stage are completed is dispatched, not blocked.
C10_BlockedStageDoesNotAbort ==
    /\ [][(Running /\ BlockStep /\ idx < Len(workflow_def)) =>
            (pc' = "loop" /\ idx' = idx + 1)]_vars
    /\ [](pc = "returned" =>
            \A k \in EventsOf("blocked") :
                \A j \in DOMAIN workflow_def :
                    j > events[k].idx =>
                        \/ Examined(j)
                        \/ \E m \in EventsOf("failed") :
                              /\ ~events[m].handled
                              /\ events[k].idx < events[m].idx
                              /\ events[m].idx < j)
    /\ [][(/\ pc = "loop"
           /\ EventsOf("blocked") # {}
           /\ \A d \in DependencyStages(tasks[CurrentStage]) :
                 d \in DOMAIN tasks /\ tasks[d].status = COMPLETED)
          => /\ ~BlockStep
             /\ workflow_def[idx].agent_name \in RegisteredAgents
                   => DispatchStep(CurrentStage)]_vars

\* C10 witness: a returned run in which a stage was blocked and a later entry
\* was dispatched
C10_Witness ==
    /\ pc = "returned"
    /\ \E k \in EventsOf("blocked") :
          \E m \in EventsOf("dispatched") : events[m].idx > events[k].idx

----------------------------------------------------------------------------
(* Vocabulary of the evaluation properties *)

\* this step is a call op on the evaluation system
EvalStep(op) == calls' = calls + 1 /\ eval_call'.op = op

\* the autonomy level a worker has before a call: that of its scorecard, or of
\* the fresh scorecard the call creates
AutonomyOf(cards, name) ==
    IF name \in DOMAIN cards THEN cards[name].autonomy_level
    ELSE AgentScorecard(name).autonomy_level

\* the scorecard a worker has before a call
CardOf(cards, name) ==
    IF name \in DOMAIN cards THEN cards[name] ELSE AgentScorecard(name)

----------------------------------------------------------------------------
(* C11 *)

\* C11: for any scorecard and any sequence of record_task_result calls (any
\* mix of successes, failures and scores), autonomy_level stays within
\* [0.2, 1.0] after every call.
C11_AutonomyWithinBounds ==
    \A name \in DOMAIN _scorecards :
        /\ _scorecards[name].autonomy_level >= 2
        /\ _scorecards[name].autonomy_level <= 10

\* C11 witness: five failed results in a row, the last of which would have
\* taken autonomy below the floor
C11_Witness ==
    /\ "GoodAgent" \in DOMAIN _scorecards
    /\ _scorecards["GoodAgent"].total_tasks = 5
    /\ _scorecards["GoodAgent"].failed_tasks = 5
    /\ _scorecards["GoodAgent"].autonomy_level = 2

----------------------------------------------------------------------------
(* C12 *)

\* C12: each record_task_result call changes autonomy_level by exactly the
\* single-step rule evaluated on the aggregate recomputed after the new result
\* is counted: +0.1 capped at 1.0 if overall >= 80 and success rate >= 0.9;
\* otherwise -0.2 floored at 0.2 if overall < 50 or success rate < 0.7;
\* otherwise no change.
C12_SingleStepRule ==
    [][EvalStep("record_task_result") =>
        LET name == eval_call'.agent_name
            before == AutonomyOf(_scorecards, name)
            after == _scorecards'[name]
            overall == get_overall_score(after)
            rate == get_success_rate(after)
        IN /\ after.total_tasks = CardOf(_scorecards, name).total_tasks + 1
           /\ after.autonomy_level =
                IF overall.num >= 80 * overall.den /\ 10 * rate.num >= 9 * rate.den
                THEN (IF before + 1 > 10 THEN 10 ELSE before + 1)
                ELSE IF overall.num < 50 * overall.den \/ 10 * rate.num < 7 * rate.den
                     THEN (IF before - 2 < 2 THEN 2 ELSE before - 2)
                     ELSE before]_vars

\* C12 witness: a scorecard lowered by a first result and raised by 0.1, below
\* the cap, by the second
C12_Witness ==
    /\ "GoodAgent" \in DOMAIN _scorecards
    /\ _scorecards["GoodAgent"].total_tasks = 2
    /\ _scorecards["GoodAgent"].autonomy_level = 9

----------------------------------------------------------------------------
(* C13 *)

\* the scorecard of a fresh worker after five successful results in a row,
\* each scoring at least 95 on correctness and compliance
FiveGoodResults ==
    /\ "GoodAgent" \in DOMAIN _scorecards
    /\ LET card == _scorecards["GoodAgent"] IN
       /\ card.total_tasks = 5
       /\ card.successful_tasks = 5
       /\ \A c \in {CORRECTNESS, COMPLIANCE} :
             /\ c \in DOMAIN card.scores
             /\ Len(card.scores[c]) = 5
             /\ \A k \in DOMAIN card.scores[c] : card.scores[c][k].score >= 95

\* C13 as stated: for a fresh scorecard, after five consecutive successful
\* task results each scoring at least 95 on correctness and compliance,
\* autonomy_level is strictly greater than its initial value.
C13_AutonomyStrictlyIncreased ==
    FiveGoodResults =>
        _scorecards["GoodAgent"].autonomy_level > AgentScorecard("GoodAgent").autonomy_level

\* C13 amended: for a fresh scorecard, after five consecutive successful task
\* results each scoring at least 95 on correctness and compliance,
\* autonomy_level is not below its initial value: it is still 1.0, the initial
\* value and the cap.
C13_AutonomyNotLowered ==
    FiveGoodResults => _scorecards["GoodAgent"].autonomy_level = 10

\* C13 witness: five such results, scores of 95 among them
C13_Witness ==
    /\ FiveGoodResults
    /\ \E k \in 1..5 : _scorecards["GoodAgent"].scores[CORRECTNESS][k].score = 95

----------------------------------------------------------------------------
(* C14 *)

\* C14: autonomy_level changes only through the adjustment rule run at the
\* end of recording a task (or build) result: record_escalation increments the
\* escalation counter and leaves autonomy_level and the task counters
\* unchanged, and record_review_result, get_recommendations and get_scorecard
\* never change autonomy_level.
C14_AutonomyChangesOnlyByAdjustment ==
    [][calls' = calls + 1 =>
        /\ EvalStep("record_escalation") =>
              LET name == eval_call'.agent_name
                  before == CardOf(_scorecards, name)
                  after == _scorecards'[name]
              IN /\ after.escalations = before.escalations + 1
                 /\ after.autonomy_level = before.autonomy_level
                 /\ after.total_tasks = before.total_tasks
                 /\ after.successful_tasks = before.successful_tasks
                 /\ after.failed_tasks = before.failed_tasks
        /\ eval_call'.op \in {"record_escalation", "record_review_result",
                              "get_recommendations", "get_scorecard"} =>
              \A name \in DOMAIN _scorecards' :
                  _scorecards'[name].autonomy_level = AutonomyOf(_scorecards, name)
        /\ \A name \in DOMAIN _scorecards \cap DOMAIN _scorecards' :
              _scorecards'[name].autonomy_level # _scorecards[name].autonomy_level =>
                  /\ eval_call'.op \in {"record_task_result", "record_build_result"}
                  /\ eval_call'.agent_name = name]_vars

\* C14 witness: an escalation was just recorded for a worker whose autonomy
\* had been lowered before
C14_Witness ==
    /\ eval_call.op = "record_escalation"
    /\ _scorecards[eval_call.agent_name].escalations > 0
    /\ _scorecards[eval_call.agent_name].autonomy_level < 10

----------------------------------------------------------------------------
(* C15 *)

\* C15: each record_task_result call increases the worker's total_tasks by
\* exactly one and exactly one of successful_tasks (if success) or
\* failed_tasks (if not) by one, so total_tasks = successful_tasks +
\* failed_tasks holds after any sequence of calls.
C15_CountersAddUp ==
    /\ [][EvalStep("record_task_result") =>
            LET name == eval_call'.agent_name
                before == CardOf(_scorecards, name)
                after == _scorecards'[name]
            IN /\ after.total_tasks = before.total_tasks + 1
               /\ IF eval_call'.success
                  THEN /\ after.successful_tasks = before.successful_tasks + 1
                       /\ after.failed_tasks = before.failed_tasks
                  ELSE /\ after.failed_tasks = before.failed_tasks + 1
                       /\ after.successful_tasks = before.successful_tasks]_vars
    /\ [](\A name \in DOMAIN _scorecards :
            _scorecards[name].total_tasks
                = _scorecards[name].successful_tasks + _scorecards[name].failed_tasks)

\* C15 witness: a scorecard with a successful and a failed task result
C15_Witness ==
    /\ eval_call.op = "record_task_result"
    /\ _scorecards[eval_call.agent_name].successful_tasks > 0
    /\ _scorecards[eval_call.agent_name].failed_tasks > 0

----------------------------------------------------------------------------
(* Vocabulary of the worker wrapper properties *)

\* the steps this step adds to the history
NewSteps == SubSeq(exec_trace', Len(exec_trace) + 1, Len(exec_trace'))

\* this step starts an execute call for request r
StartStep(r) ==
    /\ Len(exec_trace') > Len(exec_trace)
    /\ exec_trace'[Len(exec_trace) + 1] = ExecStep(r, "start")

\* this step validates the output of request r and finds an error
OutputViolationStep(r) ==
    /\ Len(exec_trace') > Len(exec_trace)
    /\ exec_trace'[Len(exec_trace) + 1] = ExecStep(r, "output_violation")

\* the failure entries the memory store holds for a task
FailureEntries(entries, task_id) ==
    {k \in DOMAIN entries :
        /\ entries[k].scope = FAILURE
        /\ entries[k].content.kind = "failure"
        /\ entries[k].content.task_id = task_id}

----------------------------------------------------------------------------
(* C16 *)

\* C16: if the input envelope has at least one error-severity violation, the
\* worker wrapper's execute raises a ContractViolation before dispatch: the
\* worker-specific logic is never invoked for that input.
C16_InputViolationRaisesBeforeDispatch ==
    [][\A r \in RequestIds :
        (StartStep(r) /\ "error" \in exec_input'[r]) =>
            /\ exec_pc'[r] = "raised"
            /\ exec_error'[r] = ContractViolationError
            /\ \A k \in DOMAIN NewSteps : NewSteps[k].step # "impl"
            /\ _entries' = _entries]_vars

\* C16 witness: an execute call whose input had an error next to a warning
\* has raised
C16_Witness ==
    \E r \in RequestIds :
        /\ exec_pc[r] = "raised"
        /\ exec_input[r] = {"error", "warning"}
        /\ exec_trace[Len(exec_trace)] = ExecStep(r, "raise")
        /\ exec_trace[Len(exec_trace) - 1] = ExecStep(r, "start")

----------------------------------------------------------------------------
(* C17 *)

\* C17: if the worker's output has an error-severity violation, execute
\* raises a ContractViolation only after a failed task result has been
\* recorded in Evaluation and a failure entry stored in Memory, and side
\* effects made earlier in the call (the working-memory task entry, entries
\* written by the worker logic) are not rolled back.
C17_OutputViolationRecordedThenRaised ==
    [][\A r \in RequestIds :
        OutputViolationStep(r) =>
            /\ exec_pc'[r] = "raised"
            /\ exec_error'[r] = ContractViolationError
            /\ Worker \in DOMAIN _scorecards'
            /\ _scorecards'[Worker].failed_tasks
                  > CardOf(_scorecards, Worker).failed_tasks
            /\ scorecards_file'[Worker].failed_tasks = _scorecards'[Worker].failed_tasks
            /\ FailureEntries(_entries', r) \ DOMAIN _entries # {}
            /\ \A k \in DOMAIN _entries :
                  k \in DOMAIN _entries' /\ _entries'[k] = _entries[k]
            /\ _generate_id(Content("task", r, WorkerInputType, 0)) \in DOMAIN _entries'
            /\ \E k \in DOMAIN NewSteps :
                  /\ NewSteps[k].step = "record_failure"
                  /\ \A j \in DOMAIN NewSteps : NewSteps[j].step = "raise" => k < j]_vars

\* C17 witness: an execute call raised on an output violation after the worker
\* logic had written an entry, which the store still holds
C17_Witness ==
    \E r \in RequestIds :
        /\ exec_pc[r] = "raised"
        /\ exec_trace[Len(exec_trace)] = ExecStep(r, "raise")
        /\ \E k \in DOMAIN exec_trace : exec_trace[k] = ExecStep(r, "output_violation")
        /\ _generate_id(Content("note", r, "worker_note", 0)) \in DOMAIN _entries
        /\ FailureEntries(_entries, r) # {}

----------------------------------------------------------------------------
(* Vocabulary of the escalation properties *)

\* this step is a call op on the orchestrator's conflicts
ConflictStep(op) ==
    /\ conflict_call'.n = conflict_call.n + 1
    /\ conflict_call'.op = op

----------------------------------------------------------------------------
(* C18 *)

\* C18: for every list of participants (any registered workers, unknown
\* names, or the empty list), escalate_conflict sets decision_owner to the top
\* static authority (ArchitectAgent, authority 10), never to the
\* highest-authority participant below that tier.
C18_DecisionOwnerIsTopAuthority ==
    /\ \A k \in DOMAIN _escalations :
          /\ _escalations[k].decision_owner = "ArchitectAgent"
          /\ authority_level(_escalations[k].decision_owner) = 10
    /\ \A a \in RegisteredAgents : authority_level(a) <= authority_level("ArchitectAgent")

\* C18 witness: conflicts escalated by two participants of authority 5 and 7
\* and by a name the orchestrator does not hold
C18_Witness ==
    /\ \E k \in DOMAIN _escalations :
          _escalations[k].agents_involved = <<"ImplementationAgent", "ReviewerAgent">>
    /\ \E k \in DOMAIN _escalations :
          _escalations[k].agents_involved = <<UnknownAgent>>

----------------------------------------------------------------------------
(* C19 *)

\* C19 as stated: every escalate_conflict call both appends the new
\* ConflictRecord to the orchestrator's escalation list and stores that record
\* in the memory store under project scope.
C19_EscalationListedAndPersisted ==
    [][ConflictStep("escalate_conflict") =>
        /\ Len(_escalations') = Len(_escalations) + 1
        /\ SubSeq(_escalations', 1, Len(_escalations)) = _escalations
        /\ Last(_escalations').conflict_id = conflict_call'.conflict_id
        /\ \E k \in DOMAIN _entries' :
              /\ _entries'[k].scope = PROJECT
              /\ _entries'[k].content = Last(_escalations')]_vars

----------------------------------------------------------------------------
(* C20 *)

\* C20 as stated: conflict resolution is one-shot: resolve_conflict sets
\* resolution/resolved_at and reports success only when the id matches a record
\* that has no resolution yet; for an already-resolved id or an unknown id it
\* changes no record and reports not found (false), so a record's resolution
\* is never overwritten.
C20_ResolutionIsOneShot ==
    [][ConflictStep("resolve_conflict") =>
        LET id == conflict_call'.conflict_id
            unresolved == {k \in DOMAIN _escalations :
                              /\ _escalations[k].conflict_id = id
                              /\ _escalations[k].resolution = "None"}
        IN /\ IF unresolved # {}
              THEN /\ conflict_call'.returned
                   /\ \E k \in unresolved :
                         /\ _escalations'[k].resolution = conflict_call'.resolution
                         /\ _escalations'[k].resolved_at # NotResolved
              ELSE /\ ~conflict_call'.returned
                   /\ _escalations' = _escalations
           /\ \A k \in DOMAIN _escalations :
                 _escalations[k].resolution # "None" =>
                    _escalations'[k] = _escalations[k]]_vars

----------------------------------------------------------------------------
(* C21 *)

\* C21 as stated: the escalations field of a WorkflowResult contains exactly
\* the conflicts escalated during that run: conflicts escalated on the same
\* orchestrator before the run started are not included.
C21_ResultHoldsEscalationsOfTheRun ==
    [][(~result.returned /\ result'.returned) =>
        result'.escalations =
            EscalationDicts(SubSeq(_escalations, escalated_before + 1,
                                   Len(_escalations)))]_vars

----------------------------------------------------------------------------
(* C22 *)

\* C22 as stated: round-trip of the Evaluation System: after any sequence of
\* recorded results, saving and reloading from the same storage location
\* yields scorecards observably identical to those before the save, including
\* per-category score entries (hence category averages and overall score),
\* task counters, escalation counter and autonomy_level.
C22_EvaluationRoundTrip ==
    [][(EvalStep("reload") /\ scorecards_file = SavedScorecards(_scorecards)) =>
        /\ DOMAIN _scorecards' = DOMAIN _scorecards
        /\ \A name \in DOMAIN _scorecards :
              /\ _scorecards'[name].scores = _scorecards[name].scores
              /\ to_dict(_scorecards'[name]) = to_dict(_scorecards[name])]_vars

----------------------------------------------------------------------------
(* Vocabulary of the memory store properties *)

\* this step is a call op on the memory store
MemStep(op) == calls' = calls + 1 /\ mem_call'.op = op

\* the strength of an entry is at least, or below, a threshold given in tenths
AtLeast(entry, threshold, t) ==
    LET strength == get_current_strength(entry, t)
    IN strength.num * 10 >= threshold * strength.den

Below(entry, threshold, t) == ~AtLeast(entry, threshold, t)

\* entry e is no weaker than entry d at time t
NoWeaker(e, d, t) ==
    LET se == get_current_strength(e, t)
        sd == get_current_strength(d, t)
    IN se.num * sd.den >= sd.num * se.den

\* an entry passes the id, scope, source and tag filters of a retrieve call
PassesFilters(entry, f) ==
    /\ f.entry_id # {} => entry.id \in f.entry_id
    /\ f.scope # "None" => entry.scope = f.scope
    /\ f.source # "None" => entry.source = f.source
    /\ f.tags # {} => \E tag \in f.tags : tag \in entry.tags

\* an entry is a hit of a search call
PassesSearch(entry, i, t) ==
    /\ i.scope # "None" => entry.scope = i.scope
    /\ AtLeast(entry, 1, t)
    /\ i.query \in {entry.content.kind, entry.content.task_id, entry.content.detail,
                    "kind", "task_id", "detail", "timestamp"}

\* every entry of before outside ids is in after, unchanged
OthersUnchanged(before, after, ids) ==
    \A k \in DOMAIN before \ ids : k \in DOMAIN after /\ after[k] = before[k]

----------------------------------------------------------------------------
(* C23 *)

\* C23: round-trip of the Memory Store: after any sequence of store, retrieve,
\* search, forget and cleanup calls, a new store loaded from the same location
\* holds exactly the entries of the saved store that are not expired at load
\* time, each with identical id, content, scope, source, confidence,
\* decay_policy, created_at, last_accessed, access_count, tags and related
\* entries.
C23_MemoryRoundTrip ==
    [][MemStep("load") =>
        /\ DOMAIN _entries' = {k \in DOMAIN _entries : AtLeast(_entries[k], 1, clock)}
        /\ \A k \in DOMAIN _entries' : _entries'[k] = _entries[k]]_vars

\* C23 witness: a store was loaded that holds an entry read before the save
\* and that dropped an expired entry of the file
C23_Witness ==
    /\ mem_call.op = "load"
    /\ \E k \in DOMAIN _entries :
          /\ _entries[k].access_count > 0
          /\ _entries[k].last_accessed > _entries[k].created_at
    /\ DOMAIN memories_file \ DOMAIN _entries # {}

----------------------------------------------------------------------------
(* C24 *)

\* C24: after forget(id) returns, retrieve(entry_id=id) returns an empty
\* result until content with that id is stored again; forget returns true
\* exactly when the id was present and leaves all other entries unchanged.
C24_ForgottenUntilStoredAgain ==
    [][/\ MemStep("forget") =>
            LET id == mem_call'.args[1]
            IN /\ mem_call'.returned = (id \in DOMAIN _entries)
               /\ id \notin DOMAIN _entries'
               /\ DOMAIN _entries' = DOMAIN _entries \ {id}
               /\ OthersUnchanged(_entries, _entries', {id})
       /\ \A id \in StoredIds :
            /\ (MemStep("retrieve") /\ mem_call'.args[1].f.entry_id = {id}
                    /\ id \notin DOMAIN _entries)
                  => mem_call'.returned = <<>>
            /\ (id \notin DOMAIN _entries /\ id \in DOMAIN _entries')
                  => (MemStep("store") /\ mem_call'.returned = id)]_vars

\* C24 witness: forget removed one of several entries and returned true
C24_Witness ==
    /\ mem_call.op = "forget"
    /\ mem_call.returned = TRUE
    /\ mem_call.args[1] \notin DOMAIN _entries
    /\ mem_call.args[1] \notin DOMAIN memories_file
    /\ Cardinality(DOMAIN _entries) >= 2

----------------------------------------------------------------------------
(* C25 *)

\* C25: cleanup(threshold) removes exactly the entries whose current strength
\* is below threshold at call time, leaves every other entry in the store
\* unchanged, and returns the number of entries it removed.
C25_CleanupRemovesExactlyTheWeak ==
    [][MemStep("cleanup") =>
        LET threshold == mem_call'.args[1]
            weak == {k \in DOMAIN _entries : Below(_entries[k], threshold, clock)}
        IN /\ DOMAIN _entries' = DOMAIN _entries \ weak
           /\ OthersUnchanged(_entries, _entries', weak)
           /\ mem_call'.returned = Cardinality(weak)]_vars

\* C25 witness: cleanup(0.5) removed an entry and kept another one, and the
\* file holds what the store holds
C25_Witness ==
    /\ mem_call.op = "cleanup"
    /\ mem_call.args[1] = 5
    /\ mem_call.returned >= 1
    /\ DOMAIN _entries # {}
    /\ DOMAIN memories_file = DOMAIN _entries

----------------------------------------------------------------------------
(* C26 *)

\* C26: each retrieve or search call increments access_count by exactly one
\* and resets last_accessed to the current time for every entry that matches
\* the call's filters and strength threshold, and leaves access_count and
\* last_accessed of every non-matching entry unchanged.
C26_ReadsCountAsAccesses ==
    [][\A op \in {"retrieve", "search"} :
        MemStep(op) =>
            /\ DOMAIN _entries' = DOMAIN _entries
            /\ \A k \in DOMAIN _entries :
                  LET i == mem_call'.args[1]
                      hit == IF op = "retrieve"
                             THEN /\ PassesFilters(_entries[k], i.f)
                                  /\ AtLeast(_entries[k], i.f.min_strength, clock)
                             ELSE PassesSearch(_entries[k], i, clock)
                  IN IF hit
                     THEN /\ _entries'[k].access_count = _entries[k].access_count + 1
                          /\ _entries'[k].last_accessed = clock
                     ELSE /\ _entries'[k].access_count = _entries[k].access_count
                          /\ _entries'[k].last_accessed = _entries[k].last_accessed]_vars

\* C26 witness: a read with limit 1 matched two entries, one of them last
\* read hours ago, and left a third entry alone
C26_Witness ==
    /\ mem_call.op \in {"retrieve", "search"}
    /\ Cardinality(mem_call.matched) = 2
    /\ Len(mem_call.returned) = 1
    /\ \A k \in mem_call.matched : _entries[k].last_accessed = clock
    /\ \E k \in mem_call.matched : _entries[k].created_at < clock
    /\ \E k \in DOMAIN _entries \ mem_call.matched : _entries[k].access_count = 0

----------------------------------------------------------------------------
(* C27 *)

\* C27: retrieve returns at most limit entries, each satisfying every supplied
\* filter (id, scope, source, tags) and having current strength at least
\* min_strength, ordered by non-increasing current strength; no matching entry
\* stronger than a returned entry is omitted.  Current strength is the
\* strength the returned entries have when the call returns.
C27_RetrieveReturnsTheStrongest ==
    [][MemStep("retrieve") =>
        LET i == mem_call'.args[1]
            returned == mem_call'.returned
            hits == {k \in DOMAIN _entries :
                        /\ PassesFilters(_entries[k], i.f)
                        /\ AtLeast(_entries[k], i.f.min_strength, clock)}
        IN /\ Len(returned) <= i.limit
           /\ Len(returned) = IF Cardinality(hits) <= i.limit
                              THEN Cardinality(hits) ELSE i.limit
           /\ \A n, m \in DOMAIN returned : returned[n] = returned[m] => n = m
           /\ \A n \in DOMAIN returned :
                 /\ returned[n] \in hits
                 /\ PassesFilters(_entries'[returned[n]], i.f)
                 /\ AtLeast(_entries'[returned[n]], i.f.min_strength, clock)
           /\ \A n, m \in DOMAIN returned :
                 n < m => NoWeaker(_entries'[returned[n]], _entries'[returned[m]], clock)
           /\ \A k \in hits :
                 (\A n \in DOMAIN returned : returned[n] # k) =>
                    \A n \in DOMAIN returned :
                        NoWeaker(_entries'[returned[n]], _entries'[k], clock)]_vars

\* C27 witness: retrieve with limit 1 matched entries of different strength
\* and returned the strongest, and a retrieve returned several entries
C27_Witness ==
    /\ mem_call.op = "retrieve"
    /\ mem_call.args[1].limit = 1
    /\ Len(mem_call.returned) = 1
    /\ \E k \in mem_call.matched :
          ~NoWeaker(_entries[k], _entries[mem_call.returned[1]], clock)
            \/ ~NoWeaker(_entries[mem_call.returned[1]], _entries[k], clock)

----------------------------------------------------------------------------
(* C28 *)

\* an entry that was never read and whose last access is now
Fresh(entry) == entry.access_count = 0 /\ entry.last_accessed = clock

\* C28 as stated: for every memory entry, whatever its confidence and decay
\* policy, current strength is exactly 1.0 when access_count = 0 and no time
\* has elapsed since its last access.
C28_FreshStrengthIsOne ==
    \A k \in DOMAIN _entries :
        Fresh(_entries[k]) =>
            LET strength == get_current_strength(_entries[k], clock)
            IN strength.num = strength.den

\* C28 amended: for every memory entry, whatever its decay policy, current
\* strength equals the entry's confidence when access_count = 0 and no time
\* has elapsed since its last access: 1.0 exactly when confidence is 1.0.
C28_FreshStrengthIsConfidence ==
    \A k \in DOMAIN _entries :
        Fresh(_entries[k]) =>
            LET strength == get_current_strength(_entries[k], clock)
            IN /\ strength.num * 10 = _entries[k].confidence * strength.den
               /\ strength.num = strength.den <=> _entries[k].confidence = 10

\* C28 witness: fresh entries at confidence 0.5 under a decaying and under the
\* permanent policy, next to one at confidence 1.0
C28_Witness ==
    /\ \E k \in DOMAIN _entries :
          /\ Fresh(_entries[k])
          /\ _entries[k].confidence = 5
          /\ _entries[k].decay_policy = SLOW
    /\ \E k \in DOMAIN _entries :
          /\ Fresh(_entries[k])
          /\ _entries[k].confidence = 10
          /\ _entries[k].decay_policy = PERMANENT


----------------------------------------------------------------------------
(* C29 *)

\* a caller starts a call in this step
CallBegins ==
    \E c \in Callers : in_call[c].pc = "idle" /\ in_call'[c].pc # "idle"

\* the stores are what the calls made so far leave when they run one after
\* another, in the order they were made, and the files hold every entry and
\* every scorecard as the stores hold them
SerialState ==
    /\ _entries = serial.entries
    /\ _scorecards = serial.cards
    /\ DOMAIN memories_file = DOMAIN _entries
    /\ \A k \in DOMAIN _entries :
          MemoryEntry_from_dict(memories_file[k]) = _entries[k]
    /\ scorecards_file = SavedScorecards(_scorecards)

\* C29: store, the access bump of retrieve, forget, cleanup and
\* record_task_result on one shared store are atomic with respect to each
\* other under concurrent callers: whenever no call is in progress, and
\* whenever a caller starts a call, the stores and their files are the result
\* of the calls made so far in a serial order; no update is lost and no caller
\* or saved file sees a partially updated entry.
C29_MutatingCallsAreAtomic ==
    /\ [](AllIdle => SerialState)
    /\ [][CallBegins => SerialState]_vars

\* both callers have made calls: an entry was accessed and a result recorded
C29_Witness ==
    /\ AllIdle
    /\ {serial.order[k] : k \in DOMAIN serial.order} = Callers
    /\ \E k \in DOMAIN _entries : _entries[k].access_count > 0
    /\ "ImplementationAgent" \in DOMAIN _scorecards

----------------------------------------------------------------------------
(* C30 *)

\* this step is call op on the artifact store
ArtifactStep(op) ==
    /\ artifact_call'.n = artifact_call.n + 1
    /\ artifact_call'.op = op

\* the call of this step names an existing artifact that its agent does not
\* own, and does not force
UpdateByNonOwner ==
    /\ ArtifactStep("update")
    /\ artifact_call'.name \in DOMAIN _artifacts
    /\ _artifacts[artifact_call'.name].owner # artifact_call'.agent
    /\ ~artifact_call'.force

\* C30: an update of an existing artifact by an agent that is not its owner,
\* without force, raises an ownership error (PermissionError) and leaves the
\* content, the current version and the version list of the artifact as they
\* were.
C30_NonOwnerUpdateRaisesAndChangesNothing ==
    [][UpdateByNonOwner =>
        LET name == artifact_call'.name IN
        /\ artifact_call'.raised = "PermissionError"
        /\ name \in DOMAIN _artifacts'
        /\ content_of(_artifacts'[name]) = content_of(_artifacts[name])
        /\ _artifacts'[name].current_version = _artifacts[name].current_version
        /\ _artifacts'[name].versions = _artifacts[name].versions]_vars

\* an artifact its owner has updated once was then refused to another agent
C30_Witness ==
    /\ artifact_call.op = "update"
    /\ artifact_call.raised = "PermissionError"
    /\ ~artifact_call.force
    /\ artifact_call.name \in DOMAIN _artifacts
    /\ _artifacts[artifact_call.name].owner # artifact_call.agent
    /\ Len(_artifacts[artifact_call.name].versions) = 2
    /\ content_of(_artifacts[artifact_call.name]) = "# Test v2"

----------------------------------------------------------------------------
(* C31 *)

\* the last call created an artifact and this step is an update of it by the
\* agent that created it, without force
UpdateByCreator ==
    /\ artifact_call.op = "create"
    /\ ArtifactStep("update")
    /\ artifact_call'.name = artifact_call.name
    /\ artifact_call'.agent = artifact_call.agent
    /\ ~artifact_call'.force

\* C31: after an agent creates an artifact, of any artifact type, an update
\* of it by the same agent succeeds: nothing is raised and the artifact holds
\* the new content with exactly two versions.
C31_CreatorCanUpdate ==
    [][UpdateByCreator =>
        LET name == artifact_call'.name IN
        /\ artifact_call'.raised = "None"
        /\ content_of(_artifacts'[name]) = artifact_call'.content
        /\ Len(_artifacts'[name].versions) = 2]_vars

----------------------------------------------------------------------------
(* C39 *)

\* this step is a create or an update, without force, that names an existing
\* artifact and is made by an agent that is not its owner
CallByNonOwner ==
    /\ ArtifactStep("create") \/ ArtifactStep("update")
    /\ artifact_call'.name \in DOMAIN _artifacts
    /\ _artifacts[artifact_call'.name].owner # artifact_call'.agent
    /\ ~artifact_call'.force

\* C39: the ownership check is never bypassed: a create or update call without
\* force made by an agent other than the owner of an existing artifact leaves
\* the artifact's content, owner and version history as they were.
C39_NonOwnerNeverChangesArtifact ==
    [][CallByNonOwner =>
        LET name == artifact_call'.name IN
        /\ name \in DOMAIN _artifacts'
        /\ content_of(_artifacts'[name]) = content_of(_artifacts[name])
        /\ _artifacts'[name].owner = _artifacts[name].owner
        /\ _artifacts'[name].versions = _artifacts[name].versions]_vars

----------------------------------------------------------------------------
(* C32 *)

\* C32: if run_workflow returns success=True, every stage declared in the
\* workflow is in stages_completed and its task ends in status completed: no
\* task of a successful run ends failed, blocked or pending.
C32_SuccessMeansEveryStageCompleted ==
    (pc = "returned" /\ result.success) =>
        \A s \in DeclaredStages(workflow_def) :
            /\ InSeq(s, result.stages_completed)
            /\ tasks[s].status = COMPLETED

----------------------------------------------------------------------------
(* C34 *)

\* C34: a task whose status has become completed keeps it for the rest of the
\* run, so every stage listed in stages_completed has a task in status
\* completed when the run returns.
C34_CompletedIsTerminal ==
    /\ [][pc # "idle" =>
            \A s \in DOMAIN tasks :
                tasks[s].status = COMPLETED => tasks'[s].status = COMPLETED]_vars
    /\ [](pc = "returned" =>
            \A k \in DOMAIN result.stages_completed :
                tasks[result.stages_completed[k]].status = COMPLETED)

----------------------------------------------------------------------------
(* C35 *)

\* the tasks of the run that are running
RunningTasks == {s \in DOMAIN tasks : tasks[s].status = RUNNING}

\* C35: within a run the stages execute one after the other: at most one task
\* is running at any moment, a stage is dispatched only after the stage
\* dispatched before it has completed or failed (the event after a dispatch
\* is the completion or the failure of the same entry, and while there is
\* none the coroutine is awaiting that worker), and no task is running when
\* run_workflow returns.
C35_StagesRunOneAtATime ==
    /\ Cardinality(RunningTasks) <= 1
    /\ \A k \in EventsOf("dispatched") :
          IF k < Len(events)
          THEN /\ events[k + 1].idx = events[k].idx
               /\ events[k + 1].kind \in {"completed", "failed"}
          ELSE pc = "executing" /\ RunningTasks = {events[k].stage}
    /\ pc = "returned" => RunningTasks = {}

\* a returned run that dispatched three entries, one of which failed, its
\* failure routed
C35_Witness ==
    /\ pc = "returned"
    /\ Cardinality(EventsOf("dispatched")) >= 3
    /\ \E k \in EventsOf("failed") : events[k].handled
    /\ EventsOf("completed") # {}

----------------------------------------------------------------------------
(* C40 *)

\* the events that end the visit of entry j: its completion, its failure or
\* its blocking
VisitsOf(j) ==
    {k \in DOMAIN events :
        events[k].idx = j /\ events[k].kind \in {"completed", "failed", "blocked"}}

\* C40: every run_workflow call eventually returns a WorkflowResult, provided
\* each worker dispatch eventually returns or raises: the stage loop only
\* moves forward, one entry at a time, it visits each declared entry at most
\* once, and failure routing (which resets an earlier stage to pending) moves
\* the loop to the next entry or ends it, never back.
C40_RunEventuallyReturns ==
    /\ (pc = "loop") ~> (pc = "returned" /\ result.returned)
    /\ [][pc # "idle" =>
            /\ idx' = idx \/ idx' = idx + 1
            /\ idx' <= Len(workflow_def)
            /\ FailureStep => (pc' = "returned" \/ idx' = idx + 1)]_vars
    /\ [](\A j \in DOMAIN workflow_def : Cardinality(VisitsOf(j)) <= 1)

\* a returned run in which a failure was routed to an earlier stage and the
\* loop went on to a later entry
C40_Witness ==
    /\ pc = "returned"
    /\ result.returned
    /\ \E k \in EventsOf("failed") :
          /\ events[k].handled
          /\ \E j \in DOMAIN workflow_def :
                /\ j < events[k].idx
                /\ workflow_def[j].stage = FAILURE_ROUTING(events[k].stage)
          /\ \E m \in DOMAIN events : events[m].idx > events[k].idx

----------------------------------------------------------------------------
(* C33 *)

\* this step ends the execute call of request r: it returns or raises
EndStep(r) ==
    \E k \in DOMAIN NewSteps :
        NewSteps[k] = ExecStep(r, "return") \/ NewSteps[k] = ExecStep(r, "raise")

\* the task results this step records
RecordSteps ==
    {k \in DOMAIN NewSteps : NewSteps[k].step \in {"record_success", "record_failure"}}

\* C33: every execute call of the worker wrapper records exactly one task
\* result, whether it succeeds, fails in the worker logic, or fails the input
\* or the output validation: by the time the call returns or raises, one
\* result was recorded, total_tasks of the worker has gone up by exactly one
\* (and with it the autonomy rule has run once).
C33_OneTaskResultPerExecute ==
    [][\A r \in RequestIds :
        EndStep(r) =>
            /\ Cardinality(RecordSteps) = 1
            /\ CardOf(_scorecards', Worker).total_tasks
                  = CardOf(_scorecards, Worker).total_tasks + 1]_vars

----------------------------------------------------------------------------
(* C36 *)

\* the score entries a step adds to the scorecard of the worker
NewScoreEntries ==
    LET before == CardOf(_scorecards, Worker).scores
        after == CardOf(_scorecards', Worker).scores
        old(c) == IF c \in DOMAIN before THEN Len(before[c]) ELSE 0
    IN UNION {{after[c][k] : k \in (old(c) + 1)..Len(after[c])} : c \in DOMAIN after}

\* the failure entries a step stores or overwrites in the memory store
NewFailureEntries ==
    {k \in DOMAIN _entries' :
        /\ _entries'[k].scope = FAILURE
        /\ k \notin DOMAIN _entries \/ _entries'[k] # _entries[k]}

\* C36: when one worker instance executes two inputs at once, every task
\* result recorded in the evaluation system and every failure entry stored in
\* memory carries the request_id of the input whose execution it reports.
C36_RecordsCarryTheirRequestId ==
    [][\A r \in RequestIds :
        (EndStep(r) /\ RecordSteps # {}) =>
            /\ \A e \in NewScoreEntries : e.task_id = r
            /\ \A k \in NewFailureEntries : _entries'[k].content.task_id = r]_vars

----------------------------------------------------------------------------
(* C37 *)

\* C37: for a scorecard fed only by the worker wrapper (correctness 100 and an
\* efficiency score of at most 100 on a success, correctness 0 on a failure),
\* autonomy_level never increases, over any sequence of execute calls.
C37_WrapperNeverRaisesAutonomy ==
    [][CardOf(_scorecards', Worker).autonomy_level
          <= CardOf(_scorecards, Worker).autonomy_level]_vars

\* C37 witness: a success was recorded after a failure had lowered the level,
\* and the level is still below the initial one
C37_Witness ==
    /\ CardOf(_scorecards, Worker).autonomy_level < AgentScorecard(Worker).autonomy_level
    /\ \E i, j \in DOMAIN exec_trace :
          /\ i < j
          /\ exec_trace[i].step = "record_failure"
          /\ exec_trace[j].step = "record_success"

----------------------------------------------------------------------------
(* C38 *)

\* C38: storing content identical to that of an entry already in the store
\* returns the id of that entry, leaves the number of entries unchanged and
\* replaces the entry: its access_count is 0 again and its scope, source,
\* confidence and tags are those of the latest call, whichever worker stored
\* the original; the other entries are untouched.
C38_StoreOfSameContentReplaces ==
    [][MemStep("store") =>
        LET i == mem_call'.args[1] IN
        \A k \in DOMAIN _entries :
            _entries[k].content = i.content =>
                /\ mem_call'.returned = _entries[k].id
                /\ mem_call'.returned = k
                /\ Cardinality(DOMAIN _entries') = Cardinality(DOMAIN _entries)
                /\ _entries'[k].access_count = 0
                /\ _entries'[k].scope = i.scope
                /\ _entries'[k].source = i.source
                /\ _entries'[k].confidence = i.confidence
                /\ _entries'[k].tags = i.tags
                /\ \A other \in DOMAIN _entries \ {k} :
                      /\ other \in DOMAIN _entries'
                      /\ _entries'[other] = _entries[other]]_vars

\* C38 witness: a store has replaced an entry that another worker had stored
\* and that had been read since, under another scope and confidence
C38_Witness ==
    /\ mem_call.op = "store"
    /\ \E old \in mem_call.matched :
          /\ old.access_count > 0
          /\ old.source # _entries[old.id].source
          /\ old.scope # _entries[old.id].scope
          /\ old.confidence # _entries[old.id].confidence
          /\ _entries[old.id].access_count = 0

====
